---------------------------- MODULE Spec2Model ----------------------------
(***************************************************************************)
(* EPS firmware: packet reassembly engine (services/uart_events.c), fault  *)
(* and health engine (services/redundancy_manager.c) and logging failover  *)
(* policy (services/logging.c).                                            *)
(*                                                                         *)
(* Each engine is modelled by operators over its context record, one per   *)
(* C function, and by actions that apply them.  The three engines share no *)
(* state in the source; every specification below drives one of them and   *)
(* leaves the variables of the others at their constructed values.         *)
(***************************************************************************)
EXTENDS Integers, Sequences, FiniteSets, TLC

(***************************************************************************)
(* Bounds of the exploration.                                              *)
(***************************************************************************)
\* bytes on the wire are 0 .. ByteBase-1 (uint8_t scaled down)
ByteBase == 3
\* longest arbitrary input stream fed to the reassembly engine
MaxStream == 4
\* most frames in a stream made of valid frames only
MaxFrames == 2
\* longest noise prefix in front of a valid frame
MaxNoise == 2

\* handler invocations explored from the constructed fault engine
MaxSteps == 4
\* handler invocations explored from a pre-filled fault table
MaxTableSteps == 2
\* largest occurrence count a fault entry is driven to
MaxCount == 3
\* most non-zero slots in a fault table handed to evaluate_health alone
MaxEvalEntries == 2

\* most log entries pending in the log ring at once
MaxPending == 2

\* most line errors the transport reports in one run
MaxHwErrors == 1

\* periodic updates of the battery service explored
MaxBatteryUpdates == 3
\* operations on the power profiles explored
MaxProfileSteps == 3
\* most rails that are switched on when the rail monitor starts
MaxLiveRails == 1
\* periodic updates of the rail monitor explored
MaxRailUpdates == 2

Byte == 0 .. (ByteBase - 1)

(***************************************************************************)
(* Frame format and packet codec (packet.h; collaborator, section 3 and 6  *)
(* of the design).  Frame = start byte | header | payload | trailer, the   *)
(* last header byte is payload_len.                                        *)
(***************************************************************************)
OSUSAT_START_BYTE == 2
OSUSAT_HEADER_SIZE == 2
OSUSAT_TRAILER_SIZE == 1
OSUSAT_FRAME_OVERHEAD == 1 + OSUSAT_HEADER_SIZE + OSUSAT_TRAILER_SIZE
OSUSAT_PROTOCOL_VERSION == 1

\* uart_events.c:17
MIN_HEADER_BYTES == 1 + OSUSAT_HEADER_SIZE

\* capacity of one pool buffer and number of pool buffers (uart_events_t)
UART_RX_MAX_PACKET_SIZE == 5
UART_PACKET_POOL_SIZE == 2

\* hal_uart.h:17 and the chunk[32] of uart_process_incoming_stream
UART_RX_CAPACITY == 128
UART_READ_CHUNK == 32
DMA_BUFFER_SIZE == 256

OSUSAT_PACKET_OK == "OSUSAT_PACKET_OK"
OSUSAT_PACKET_ERR_VERSION == "OSUSAT_PACKET_ERR_VERSION"
OSUSAT_PACKET_ERR_LENGTH == "OSUSAT_PACKET_ERR_LENGTH"
OSUSAT_PACKET_ERR_TRAILER == "OSUSAT_PACKET_ERR_TRAILER"

RECURSIVE SumSeq(_)
SumSeq(s) == IF s = <<>> THEN 0 ELSE Head(s) + SumSeq(Tail(s))

\* integrity trailer over header and payload
osusat_packet_checksum(body) == SumSeq(body) % ByteBase

\* pack: packet -> frame bytes
osusat_packet_pack(p) ==
    LET body == <<p.version, Len(p.payload)>> \o p.payload
    IN  <<OSUSAT_START_BYTE>> \o body \o <<osusat_packet_checksum(body)>>

\* unpack: the first len bytes of buf (a function on 0 .. capacity-1)
osusat_packet_unpack(buf, len) ==
    LET plen == IF len > 2 THEN buf[2] ELSE 0
        body == [i \in 1 .. (len - 1 - OSUSAT_TRAILER_SIZE) |-> buf[i]]
        pkt  == [version |-> buf[1],
                 payload |-> [i \in 1 .. plen |-> buf[MIN_HEADER_BYTES + i - 1]]]
        none == [version |-> 0, payload |-> <<>>]
    IN  IF len < OSUSAT_FRAME_OVERHEAD \/ len > UART_RX_MAX_PACKET_SIZE
           \/ OSUSAT_FRAME_OVERHEAD + plen # len THEN
            [res |-> OSUSAT_PACKET_ERR_LENGTH, packet |-> none]
        ELSE IF buf[1] # OSUSAT_PROTOCOL_VERSION THEN
            [res |-> OSUSAT_PACKET_ERR_VERSION, packet |-> none]
        ELSE IF buf[len - 1] # osusat_packet_checksum(body) THEN
            [res |-> OSUSAT_PACKET_ERR_TRAILER, packet |-> none]
        ELSE [res |-> OSUSAT_PACKET_OK, packet |-> pkt]

(***************************************************************************)
(* RX ring buffer (osusat/ring_buffer.h, collaborator): bounded FIFO,      *)
(* initialised with overwrite_on_full = true by hal_uart_init.             *)
(***************************************************************************)
osusat_ring_buffer_push(ring, b) ==
    IF Len(ring) >= UART_RX_CAPACITY THEN Append(Tail(ring), b)
    ELSE Append(ring, b)

RECURSIVE PushAll(_, _)
PushAll(ring, bytes) ==
    IF bytes = <<>> THEN ring
    ELSE PushAll(osusat_ring_buffer_push(ring, Head(bytes)), Tail(bytes))

Min(a, b) == IF a < b THEN a ELSE b

\* hal_uart_read: pops at most len bytes, returns them in arrival order
hal_uart_read(ring, len) ==
    LET n == Min(len, Len(ring))
    IN  [out |-> SubSeq(ring, 1, n), ring |-> SubSeq(ring, n + 1, Len(ring))]

(***************************************************************************)
(* Reassembly engine, services/uart_events.c                               *)
(***************************************************************************)
RX_STATE_WAIT_START_BYTE == "RX_STATE_WAIT_START_BYTE"
RX_STATE_READ_HEADER == "RX_STATE_READ_HEADER"
RX_STATE_READ_PAYLOAD == "RX_STATE_READ_PAYLOAD"

UART_EVENT_PACKET_RECEIVED == "UART_EVENT_PACKET_RECEIVED"
UART_EVENT_ERROR_DETECTED == "UART_EVENT_ERROR_DETECTED"

\* uart_events_init: memset to zero, state WAIT_START_BYTE, initialized
uart_events_init ==
    [initialized |-> TRUE,
     rx_state |-> RX_STATE_WAIT_START_BYTE,
     decode_index |-> 0,
     expected_packet_len |-> 0,
     pool_index |-> 0,
     packet_pool |-> [k \in 0 .. (UART_PACKET_POOL_SIZE - 1) |->
                        [i \in 0 .. (UART_RX_MAX_PACKET_SIZE - 1) |-> 0]],
     rx_byte_count |-> 0,
     rx_packet_count |-> 0,
     rx_crc_error_count |-> 0]

\* The engine paired with what it has published on the event bus and with
\* the decoder result of the byte handled last ("none" if no decode ran).
RxCtx(u, bus, res) == [uart |-> u, bus |-> bus, res |-> res]

\* uart_decode_frame without the rotation of the pool
uart_decode_frame_same_buffer(u, p, bus) ==
    LET r == osusat_packet_unpack(u.packet_pool[p], u.expected_packet_len)
    IN  IF r.res = OSUSAT_PACKET_OK THEN
            RxCtx([u EXCEPT !.rx_packet_count = @ + 1,
                            !.rx_state = RX_STATE_WAIT_START_BYTE,
                            !.decode_index = 0],
                  Append(bus, [id |-> UART_EVENT_PACKET_RECEIVED,
                               payload |-> r.packet]),
                  r.res)
        ELSE
            RxCtx([u EXCEPT !.rx_crc_error_count = @ + 1,
                            !.rx_state = RX_STATE_WAIT_START_BYTE,
                            !.decode_index = 0],
                  Append(bus, [id |-> UART_EVENT_ERROR_DETECTED,
                               payload |-> r.res]),
                  r.res)

\* the READ_PAYLOAD arm that drops a rejected frame without counting it
uart_decode_frame_uncounted(u, p, bus) ==
    LET r == osusat_packet_unpack(u.packet_pool[p], u.expected_packet_len)
    IN  IF r.res = OSUSAT_PACKET_OK THEN
            RxCtx([u EXCEPT !.rx_packet_count = @ + 1,
                            !.pool_index = (@ + 1) % UART_PACKET_POOL_SIZE,
                            !.rx_state = RX_STATE_WAIT_START_BYTE,
                            !.decode_index = 0],
                  Append(bus, [id |-> UART_EVENT_PACKET_RECEIVED,
                               payload |-> r.packet]),
                  r.res)
        ELSE
            RxCtx([u EXCEPT !.rx_state = RX_STATE_WAIT_START_BYTE,
                            !.decode_index = 0],
                  Append(bus, [id |-> UART_EVENT_ERROR_DETECTED,
                               payload |-> r.res]),
                  r.res)

\* the READ_PAYLOAD arm once the byte is stored: decode when complete
uart_decode_frame(u, p, bus) ==
    LET r == osusat_packet_unpack(u.packet_pool[p], u.expected_packet_len)
    IN  IF r.res = OSUSAT_PACKET_OK THEN
            RxCtx([u EXCEPT !.rx_packet_count = @ + 1,
                            !.pool_index = (@ + 1) % UART_PACKET_POOL_SIZE,
                            !.rx_state = RX_STATE_WAIT_START_BYTE,
                            !.decode_index = 0],
                  Append(bus, [id |-> UART_EVENT_PACKET_RECEIVED,
                               payload |-> r.packet]),
                  r.res)
        ELSE
            RxCtx([u EXCEPT !.rx_crc_error_count = @ + 1,
                            !.rx_state = RX_STATE_WAIT_START_BYTE,
                            !.decode_index = 0],
                  Append(bus, [id |-> UART_EVENT_ERROR_DETECTED,
                               payload |-> r.res]),
                  r.res)

\* uart_process_byte without the capacity test in front of the switch
uart_overflow_guard_off(u) == u

\* the overflow guard at the top of uart_process_byte
uart_overflow_guard(u) ==
    IF u.decode_index >= UART_RX_MAX_PACKET_SIZE THEN
        [u EXCEPT !.rx_state = RX_STATE_WAIT_START_BYTE, !.decode_index = 0]
    ELSE u

\* the RX_STATE_WAIT_START_BYTE arm: keep the byte only if it is the start byte
uart_wait_start_any_byte(u, p, byte) ==
    [u EXCEPT !.packet_pool[p][0] = byte,
              !.decode_index = 1,
              !.rx_state = RX_STATE_READ_HEADER]

uart_wait_start(u, p, byte) ==
    IF byte = OSUSAT_START_BYTE THEN
        [u EXCEPT !.packet_pool[p][0] = byte,
                  !.decode_index = 1,
                  !.rx_state = RX_STATE_READ_HEADER]
    ELSE u

uart_process_byte(c, byte) ==
    LET p  == c.uart.pool_index
        u1 == uart_overflow_guard(c.uart)
        i  == u1.decode_index
        u2 == [u1 EXCEPT !.packet_pool[p][i] = byte, !.decode_index = i + 1]
    IN  CASE u1.rx_state = RX_STATE_WAIT_START_BYTE ->
               RxCtx(uart_wait_start(u1, p, byte), c.bus, "none")
          [] u1.rx_state = RX_STATE_READ_HEADER ->
               IF u2.decode_index >= MIN_HEADER_BYTES THEN
                   RxCtx([u2 EXCEPT !.expected_packet_len =
                                        OSUSAT_FRAME_OVERHEAD
                                        + u2.packet_pool[p][MIN_HEADER_BYTES - 1],
                                    !.rx_state = RX_STATE_READ_PAYLOAD],
                         c.bus, "none")
               ELSE RxCtx(u2, c.bus, "none")
          [] u1.rx_state = RX_STATE_READ_PAYLOAD ->
               IF u2.decode_index >= u2.expected_packet_len THEN
                   uart_decode_frame(u2, p, c.bus)
               ELSE RxCtx(u2, c.bus, "none")

(***************************************************************************)
(* Fault and health engine, services/redundancy_manager.[ch]               *)
(***************************************************************************)
REDUNDANCY_MANAGER_MAX_FAULTS == 16
FAULT_LIST_CHUNK == 4

FAULT_SOURCE_BATTERY == "FAULT_SOURCE_BATTERY"
FAULT_SOURCE_MPPT == "FAULT_SOURCE_MPPT"
FAULT_SOURCE_RAIL == "FAULT_SOURCE_RAIL"
FAULT_SOURCE_UART == "FAULT_SOURCE_UART"
FAULT_SOURCE_COUNT == "FAULT_SOURCE_COUNT"

FAULT_SEVERITY_INFO == "FAULT_SEVERITY_INFO"
FAULT_SEVERITY_WARNING == "FAULT_SEVERITY_WARNING"
FAULT_SEVERITY_DEGRADED == "FAULT_SEVERITY_DEGRADED"
FAULT_SEVERITY_CRITICAL == "FAULT_SEVERITY_CRITICAL"
fault_severity_t == {FAULT_SEVERITY_INFO, FAULT_SEVERITY_WARNING,
                     FAULT_SEVERITY_DEGRADED, FAULT_SEVERITY_CRITICAL}

SYSTEM_HEALTH_OK == "SYSTEM_HEALTH_OK"
SYSTEM_HEALTH_DEGRADED == "SYSTEM_HEALTH_DEGRADED"
SYSTEM_HEALTH_FAULT == "SYSTEM_HEALTH_FAULT"

COMPONENT_UART_PRIMARY == 0
COMPONENT_UART_SECONDARY == 1
COMPONENT_COUNT == 12

REDUNDANCY_EVENT_CRITICAL_HEALTH == "REDUNDANCY_EVENT_CRITICAL_HEALTH"
REDUNDANCY_EVENT_HEALTH_DEGRADED == "REDUNDANCY_EVENT_HEALTH_DEGRADED"
REDUNDANCY_EVENT_HEALTH_RECOVERED == "REDUNDANCY_EVENT_HEALTH_RECOVERED"
REDUNDANCY_EVENT_COMPONENT_DEGRADED == "REDUNDANCY_EVENT_COMPONENT_DEGRADED"
REDUNDANCY_EVENT_COMPONENT_RECOVERED == "REDUNDANCY_EVENT_COMPONENT_RECOVERED"
REDUNDANCY_EVENT_HEALTH_RESPONSE == "REDUNDANCY_EVENT_HEALTH_RESPONSE"
REDUNDANCY_EVENT_COMPONENT_STATUS_RESPONSE ==
    "REDUNDANCY_EVENT_COMPONENT_STATUS_RESPONSE"
REDUNDANCY_EVENT_FAULT_LIST_RESPONSE == "REDUNDANCY_EVENT_FAULT_LIST_RESPONSE"

APP_EVENT_REQUEST_REDUNDANCY_HEALTH == "APP_EVENT_REQUEST_REDUNDANCY_HEALTH"
APP_EVENT_REQUEST_REDUNDANCY_COMPONENT_STATUS ==
    "APP_EVENT_REQUEST_REDUNDANCY_COMPONENT_STATUS"
APP_EVENT_REQUEST_REDUNDANCY_FAULT_LIST ==
    "APP_EVENT_REQUEST_REDUNDANCY_FAULT_LIST"
APP_EVENT_REQUEST_REDUNDANCY_CLEAR_FAULT ==
    "APP_EVENT_REQUEST_REDUNDANCY_CLEAR_FAULT"
APP_EVENT_REQUEST_REDUNDANCY_CLEAR_ALL == "APP_EVENT_REQUEST_REDUNDANCY_CLEAR_ALL"

\* event ids of the fault producers: service uid and local code
OSUSAT_BUILD_EVENT_ID(uid, code) == [uid |-> uid, code |-> code]
OSUSAT_GET_LOCAL_CODE(id) == id.code

BATTERY_SERVICE_UID == "BA77"
BATTERY_FAULT_DETECTED == 16
BATTERY_SELF_CHECK_FAILED == 18
BATTERY_CRITICAL_LOW == 19
BATTERY_EVENT_FAULT_DETECTED ==
    OSUSAT_BUILD_EVENT_ID(BATTERY_SERVICE_UID, BATTERY_FAULT_DETECTED)
BATTERY_EVENT_SELF_CHECK_FAILED ==
    OSUSAT_BUILD_EVENT_ID(BATTERY_SERVICE_UID, BATTERY_SELF_CHECK_FAILED)
BATTERY_EVENT_CRITICAL_LOW ==
    OSUSAT_BUILD_EVENT_ID(BATTERY_SERVICE_UID, BATTERY_CRITICAL_LOW)

Slots == 0 .. (REDUNDANCY_MANAGER_MAX_FAULTS - 1)

\* a fault_t after memset(0): every enum field holds its first enumerator
ZeroFault ==
    [source |-> FAULT_SOURCE_BATTERY, code |-> 0,
     severity |-> FAULT_SEVERITY_INFO, timestamp_ms |-> 0,
     count |-> 0, active |-> FALSE]

\* redundancy_manager_init
redundancy_manager_init ==
    [faults |-> [i \in Slots |-> ZeroFault],
     health |-> SYSTEM_HEALTH_OK,
     component_status |-> [c \in 0 .. (COMPONENT_COUNT - 1) |-> TRUE],
     total_fault_count |-> 0,
     initialized |-> TRUE]

\* a handler's result: the manager and the events it published, in order
FmRes(m, out) == [m |-> m, out |-> out]

Event(id, payload) == [id |-> id, payload |-> payload]

MatchingSlots(m, source, code) ==
    {i \in Slots : m.faults[i].active /\ m.faults[i].source = source
                   /\ m.faults[i].code = code}

FreeSlots(m) == {i \in Slots : ~m.faults[i].active}

MinOf(S) == CHOOSE x \in S : \A y \in S : x <= y

\* redundancy_manager_add_fault that always takes a free slot
redundancy_manager_add_fault_no_dedup(m, source, code, severity, now) ==
    IF FreeSlots(m) # {} THEN
        [m EXCEPT !.faults[MinOf(FreeSlots(m))] =
                      [source |-> source, code |-> code, severity |-> severity,
                       timestamp_ms |-> now, count |-> 1, active |-> TRUE],
                  !.total_fault_count = @ + 1]
    ELSE m

redundancy_manager_add_fault(m, source, code, severity, now) ==
    IF MatchingSlots(m, source, code) # {} THEN
        [m EXCEPT !.faults[MinOf(MatchingSlots(m, source, code))].count = @ + 1]
    ELSE IF FreeSlots(m) # {} THEN
        [m EXCEPT !.faults[MinOf(FreeSlots(m))] =
                      [source |-> source, code |-> code, severity |-> severity,
                       timestamp_ms |-> now, count |-> 1, active |-> TRUE],
                  !.total_fault_count = @ + 1]
    ELSE m \* fault table full: logged, nothing stored

\* remove_fault that matches on the code alone
redundancy_manager_remove_fault_any_source(m, source, code) ==
    IF {i \in Slots : m.faults[i].active /\ m.faults[i].code = code} # {} THEN
        [m |-> [m EXCEPT !.faults[MinOf({i \in Slots :
                                m.faults[i].active /\ m.faults[i].code = code})].active
                             = FALSE],
         cleared |-> TRUE]
    ELSE [m |-> m, cleared |-> FALSE]

\* redundancy_manager_remove_fault: the manager and the returned flag
redundancy_manager_remove_fault(m, source, code) ==
    IF MatchingSlots(m, source, code) # {} THEN
        [m |-> [m EXCEPT !.faults[MinOf(MatchingSlots(m, source, code))].active
                             = FALSE],
         cleared |-> TRUE]
    ELSE [m |-> m, cleared |-> FALSE]

\* the scan of redundancy_manager_evaluate_health from slot i on
RECURSIVE evaluate_health_scan(_, _, _)
evaluate_health_scan(m, i, has_degraded) ==
    IF i >= REDUNDANCY_MANAGER_MAX_FAULTS THEN
        [has_critical |-> FALSE, has_degraded |-> has_degraded]
    ELSE IF m.faults[i].active THEN
        IF m.faults[i].severity = FAULT_SEVERITY_CRITICAL THEN
            [has_critical |-> TRUE, has_degraded |-> has_degraded]
        ELSE IF m.faults[i].severity = FAULT_SEVERITY_DEGRADED THEN
            evaluate_health_scan(m, i + 1, TRUE)
        ELSE evaluate_health_scan(m, i + 1, has_degraded)
    ELSE evaluate_health_scan(m, i + 1, has_degraded)

\* redundancy_manager_evaluate_health that also counts inactive entries
RECURSIVE evaluate_health_scan_stale(_, _, _)
evaluate_health_scan_stale(m, i, has_degraded) ==
    IF i >= REDUNDANCY_MANAGER_MAX_FAULTS THEN
        [has_critical |-> FALSE, has_degraded |-> has_degraded]
    ELSE IF m.faults[i].severity = FAULT_SEVERITY_CRITICAL THEN
        [has_critical |-> TRUE, has_degraded |-> has_degraded]
    ELSE IF m.faults[i].severity = FAULT_SEVERITY_DEGRADED THEN
        evaluate_health_scan_stale(m, i + 1, TRUE)
    ELSE evaluate_health_scan_stale(m, i + 1, has_degraded)

redundancy_manager_evaluate_health_stale(m) ==
    LET r == evaluate_health_scan_stale(m, 0, FALSE)
    IN  IF r.has_critical THEN SYSTEM_HEALTH_FAULT
        ELSE IF r.has_degraded THEN SYSTEM_HEALTH_DEGRADED
        ELSE SYSTEM_HEALTH_OK

redundancy_manager_evaluate_health(m) ==
    LET r == evaluate_health_scan(m, 0, FALSE)
    IN  IF r.has_critical THEN SYSTEM_HEALTH_FAULT
        ELSE IF r.has_degraded THEN SYSTEM_HEALTH_DEGRADED
        ELSE SYSTEM_HEALTH_OK

\* redundancy_manager_publish_health_change
redundancy_manager_publish_health_change(m, new_health) ==
    FmRes([m EXCEPT !.health = new_health],
          <<Event(CASE new_health = SYSTEM_HEALTH_FAULT ->
                         REDUNDANCY_EVENT_CRITICAL_HEALTH
                    [] new_health = SYSTEM_HEALTH_DEGRADED ->
                         REDUNDANCY_EVENT_HEALTH_DEGRADED
                    [] new_health = SYSTEM_HEALTH_OK ->
                         REDUNDANCY_EVENT_HEALTH_RECOVERED,
                  new_health)>>)

\* "re-evaluate system health": publish only when the value changed
reevaluate_health(m) ==
    LET new_health == redundancy_manager_evaluate_health(m)
    IN  IF new_health # m.health THEN
            redundancy_manager_publish_health_change(m, new_health)
        ELSE FmRes(m, <<>>)

\* redundancy_manager_publish_component_degradation
redundancy_manager_publish_component_degradation(component, source, fallback) ==
    Event(REDUNDANCY_EVENT_COMPONENT_DEGRADED,
          [component |-> component, fault_source |-> source,
           fallback_available |-> fallback])

\* the battery handler that knows the critical-low event only
redundancy_manager_handle_battery_fault_one_level(m, e, now) ==
    LET code == OSUSAT_GET_LOCAL_CODE(e.id)
        severity == IF e.id = BATTERY_EVENT_CRITICAL_LOW THEN
                        FAULT_SEVERITY_CRITICAL
                    ELSE FAULT_SEVERITY_WARNING
    IN  reevaluate_health(
            redundancy_manager_add_fault(m, FAULT_SOURCE_BATTERY, code,
                                         severity, now))

redundancy_manager_handle_battery_fault(m, e, now) ==
    LET code == OSUSAT_GET_LOCAL_CODE(e.id)
        severity == IF e.id = BATTERY_EVENT_CRITICAL_LOW THEN
                        FAULT_SEVERITY_CRITICAL
                    ELSE IF e.id = BATTERY_EVENT_FAULT_DETECTED THEN
                        FAULT_SEVERITY_DEGRADED
                    ELSE FAULT_SEVERITY_WARNING
    IN  reevaluate_health(
            redundancy_manager_add_fault(m, FAULT_SOURCE_BATTERY, code,
                                         severity, now))

redundancy_manager_handle_mppt_fault(m, e, now) ==
    reevaluate_health(
        redundancy_manager_add_fault(m, FAULT_SOURCE_MPPT,
                                     OSUSAT_GET_LOCAL_CODE(e.id),
                                     FAULT_SEVERITY_DEGRADED, now))

redundancy_manager_handle_rail_fault(m, e, now) ==
    reevaluate_health(
        redundancy_manager_add_fault(m, FAULT_SOURCE_RAIL,
                                     OSUSAT_GET_LOCAL_CODE(e.id),
                                     FAULT_SEVERITY_DEGRADED, now))

\* the fault code built by redundancy_manager_handle_uart_fault
UartFaultCode(e) == e.payload[1] * 256 + OSUSAT_GET_LOCAL_CODE(e.id)

redundancy_manager_handle_uart_fault(m, e, now) ==
    IF Len(e.payload) < 1 THEN FmRes(m, <<>>)
    ELSE
        LET port == e.payload[1]
            m1 == redundancy_manager_add_fault(m, FAULT_SOURCE_UART,
                                               UartFaultCode(e),
                                               FAULT_SEVERITY_DEGRADED, now)
            component == IF port = 1 THEN COMPONENT_UART_PRIMARY
                         ELSE COMPONENT_UART_SECONDARY
        IN  FmRes([m1 EXCEPT !.component_status[component] = FALSE],
                  <<redundancy_manager_publish_component_degradation(
                        component, FAULT_SOURCE_UART, TRUE)>>)

ActiveCount(m) == Cardinality({i \in Slots : m.faults[i].active})

\* the FAULT_LIST loop without the flush of the last partial chunk
RECURSIVE fault_list_scan_no_tail(_, _, _, _)
fault_list_scan_no_tail(m, i, resp, out) ==
    IF i >= REDUNDANCY_MANAGER_MAX_FAULTS THEN out
    ELSE IF m.faults[i].active THEN
        LET r1 == [total_faults |-> resp.total_faults,
                   chunk_index |-> resp.chunk_index,
                   faults_in_chunk |-> resp.faults_in_chunk + 1,
                   faults |-> [k \in 0 .. (FAULT_LIST_CHUNK - 1) |->
                                 IF k = resp.faults_in_chunk THEN m.faults[i]
                                 ELSE resp.faults[k]]]
        IN  IF r1.faults_in_chunk >= FAULT_LIST_CHUNK THEN
                fault_list_scan_no_tail(m, i + 1,
                    [r1 EXCEPT !.chunk_index = @ + 1, !.faults_in_chunk = 0],
                    Append(out, Event(REDUNDANCY_EVENT_FAULT_LIST_RESPONSE, r1)))
            ELSE fault_list_scan_no_tail(m, i + 1, r1, out)
    ELSE fault_list_scan_no_tail(m, i + 1, resp, out)

\* the FAULT_LIST loop that sends the last chunk even when it is empty
RECURSIVE fault_list_scan_empty_tail(_, _, _, _)
fault_list_scan_empty_tail(m, i, resp, out) ==
    IF i >= REDUNDANCY_MANAGER_MAX_FAULTS THEN
        Append(out, Event(REDUNDANCY_EVENT_FAULT_LIST_RESPONSE, resp))
    ELSE IF m.faults[i].active THEN
        LET r1 == [total_faults |-> resp.total_faults,
                   chunk_index |-> resp.chunk_index,
                   faults_in_chunk |-> resp.faults_in_chunk + 1,
                   faults |-> [k \in 0 .. (FAULT_LIST_CHUNK - 1) |->
                                 IF k = resp.faults_in_chunk THEN m.faults[i]
                                 ELSE resp.faults[k]]]
        IN  IF r1.faults_in_chunk >= FAULT_LIST_CHUNK THEN
                fault_list_scan_empty_tail(m, i + 1,
                    [r1 EXCEPT !.chunk_index = @ + 1, !.faults_in_chunk = 0],
                    Append(out, Event(REDUNDANCY_EVENT_FAULT_LIST_RESPONSE, r1)))
            ELSE fault_list_scan_empty_tail(m, i + 1, r1, out)
    ELSE fault_list_scan_empty_tail(m, i + 1, resp, out)

\* the chunking loop of the FAULT_LIST request, from slot i on; resp is the
\* response being filled, out the responses published so far
RECURSIVE fault_list_scan(_, _, _, _)
fault_list_scan(m, i, resp, out) ==
    IF i >= REDUNDANCY_MANAGER_MAX_FAULTS THEN
        IF resp.faults_in_chunk > 0 THEN
            Append(out, Event(REDUNDANCY_EVENT_FAULT_LIST_RESPONSE, resp))
        ELSE out
    ELSE IF m.faults[i].active THEN
        LET r1 == [total_faults |-> resp.total_faults,
                   chunk_index |-> resp.chunk_index,
                   faults_in_chunk |-> resp.faults_in_chunk + 1,
                   faults |-> [k \in 0 .. (FAULT_LIST_CHUNK - 1) |->
                                 IF k = resp.faults_in_chunk THEN m.faults[i]
                                 ELSE resp.faults[k]]]
        IN  IF r1.faults_in_chunk >= FAULT_LIST_CHUNK THEN
                fault_list_scan(m, i + 1,
                    [r1 EXCEPT !.chunk_index = @ + 1, !.faults_in_chunk = 0],
                    Append(out, Event(REDUNDANCY_EVENT_FAULT_LIST_RESPONSE, r1)))
            ELSE fault_list_scan(m, i + 1, r1, out)
    ELSE fault_list_scan(m, i + 1, resp, out)

\* fault_source of a COMPONENT_STATUS response for a degraded component:
\* the source of the active fault in the highest slot
ComponentFaultSource(m) ==
    LET act == {i \in Slots : m.faults[i].active}
    IN  IF act = {} THEN FAULT_SOURCE_COUNT
        ELSE m.faults[CHOOSE i \in act : \A j \in act : j <= i].source

\* the CLEAR_ALL case that publishes the recovery whatever the health was
redundancy_manager_clear_all_always_publishes(m) ==
    redundancy_manager_publish_health_change(
        [m EXCEPT !.faults =
            [i \in Slots |-> [m.faults[i] EXCEPT !.active = FALSE]]],
        SYSTEM_HEALTH_OK)

\* the CLEAR_ALL case of redundancy_manager_handle_request
redundancy_manager_clear_all(m) ==
    LET m1 == [m EXCEPT !.faults =
                  [i \in Slots |-> [m.faults[i] EXCEPT !.active = FALSE]]]
    IN  IF SYSTEM_HEALTH_OK # m1.health THEN
            redundancy_manager_publish_health_change(m1, SYSTEM_HEALTH_OK)
        ELSE FmRes(m1, <<>>)

\* redundancy_manager_handle_request; e.payload is <<>> when payload_len is
\* too short for the request, otherwise <<the request struct>>
redundancy_manager_handle_request(m, e, now) ==
    IF ~m.initialized THEN FmRes(m, <<>>)
    ELSE CASE e.id = APP_EVENT_REQUEST_REDUNDANCY_HEALTH ->
            FmRes(m, <<Event(REDUNDANCY_EVENT_HEALTH_RESPONSE,
                             [health |-> m.health,
                              active_fault_count |-> ActiveCount(m),
                              timestamp_ms |-> now])>>)
      [] e.id = APP_EVENT_REQUEST_REDUNDANCY_COMPONENT_STATUS ->
            IF e.payload = <<>> THEN FmRes(m, <<>>)
            ELSE IF e.payload[1].component >= COMPONENT_COUNT THEN FmRes(m, <<>>)
            ELSE LET c == e.payload[1].component
                 IN  FmRes(m, <<Event(REDUNDANCY_EVENT_COMPONENT_STATUS_RESPONSE,
                                  [component |-> c,
                                   is_ok |-> m.component_status[c],
                                   fault_source |->
                                       IF m.component_status[c]
                                       THEN FAULT_SOURCE_COUNT
                                       ELSE ComponentFaultSource(m),
                                   timestamp_ms |-> now])>>)
      [] e.id = APP_EVENT_REQUEST_REDUNDANCY_FAULT_LIST ->
            FmRes(m, fault_list_scan(m, 0,
                        [total_faults |-> ActiveCount(m), chunk_index |-> 0,
                         faults_in_chunk |-> 0,
                         faults |-> [k \in 0 .. (FAULT_LIST_CHUNK - 1) |->
                                        ZeroFault]],
                        <<>>))
      [] e.id = APP_EVENT_REQUEST_REDUNDANCY_CLEAR_FAULT ->
            IF e.payload = <<>> THEN FmRes(m, <<>>)
            ELSE LET r == redundancy_manager_remove_fault(
                              m, e.payload[1].source, e.payload[1].code)
                 IN  IF r.cleared THEN reevaluate_health(r.m)
                     ELSE FmRes(r.m, <<>>)
      [] e.id = APP_EVENT_REQUEST_REDUNDANCY_CLEAR_ALL ->
            redundancy_manager_clear_all(m)
      [] OTHER -> FmRes(m, <<>>)

(***************************************************************************)
(* Logging service and its failover policy, services/logging.c             *)
(***************************************************************************)
MAX_LOG_ENTRIES_PER_FLUSH == 5
LOG_FLUSH_INTERVAL_CYCLES == 600
LOG_PACKET_MAX_PAYLOAD == 200

\* the two uart_events_t instances handed to logging_init by main()
PRIMARY_UART == "usart1_events_service"
AUX_UART == "usart3_events_service"
UART_PORT_1 == 0
UART_PORT_3 == 2
PortOf(u) == IF u = PRIMARY_UART THEN UART_PORT_1 ELSE UART_PORT_3

\* sizes sizeof(*entry) + message_len + 1 of the entries that get logged
EntrySizes == {90, 120}

\* logging_handle_redundancy that ignores recovery events
logging_handle_redundancy_no_failback(active, e, initialized) ==
    IF e.id = REDUNDANCY_EVENT_COMPONENT_DEGRADED THEN
        IF e.payload[1].component = COMPONENT_UART_PRIMARY
           /\ initialized[AUX_UART]
        THEN AUX_UART ELSE active
    ELSE active

\* logging_handle_redundancy: the new g_active_uart
logging_handle_redundancy(active, e, initialized) ==
    IF e.id = REDUNDANCY_EVENT_COMPONENT_DEGRADED THEN
        IF e.payload[1].component = COMPONENT_UART_PRIMARY
           /\ initialized[AUX_UART]
        THEN AUX_UART ELSE active
    ELSE IF e.id = REDUNDANCY_EVENT_COMPONENT_RECOVERED THEN
        IF e.payload # <<>> /\ e.payload[1] = COMPONENT_UART_PRIMARY
        THEN PRIMARY_UART ELSE active
    ELSE active

\* uart_events_send_packet: the ports written by hal_uart_write
uart_events_send_packet(u, initialized) ==
    IF ~initialized[u] THEN <<>> ELSE <<PortOf(u)>>

\* send_log_packet: the flush context and the ports written
send_log_packet(ctx, active, initialized) ==
    IF ctx.payload_offset = 0 \/ ~initialized[active] THEN
        [ctx |-> ctx, ports |-> <<>>]
    ELSE [ctx |-> [ctx EXCEPT !.payload_offset = 0],
          ports |-> uart_events_send_packet(active, initialized)]

\* log_flush_callback for one entry of the given size
log_flush_callback(ctx, size, active, initialized) ==
    IF ctx.entries_processed >= MAX_LOG_ENTRIES_PER_FLUSH THEN
        [ctx |-> ctx, ports |-> <<>>]
    ELSE
        LET s == IF ctx.payload_offset + size > LOG_PACKET_MAX_PAYLOAD THEN
                     LET r == send_log_packet(ctx, active, initialized)
                     IN  [ctx |-> [r.ctx EXCEPT !.sequence = @ + 1],
                          ports |-> r.ports]
                 ELSE [ctx |-> ctx, ports |-> <<>>]
        IN  [ctx |-> [s.ctx EXCEPT !.payload_offset = @ + size,
                                   !.entries_processed = @ + 1],
             ports |-> s.ports]

\* osusat_slog_flush (collaborator): every pending entry goes to the callback
RECURSIVE osusat_slog_flush(_, _, _, _)
osusat_slog_flush(entries, ctx, active, initialized) ==
    IF entries = <<>> THEN [ctx |-> ctx, ports |-> <<>>]
    ELSE LET r == log_flush_callback(ctx, Head(entries), active, initialized)
             rest == osusat_slog_flush(Tail(entries), r.ctx, active, initialized)
         IN  [ctx |-> rest.ctx, ports |-> r.ports \o rest.ports]

\* logging_flush: entries left pending, ports written, return value
logging_flush_unguarded(entries, active, initialized) ==
    IF Len(entries) = 0 THEN
        [pending |-> entries, ports |-> <<>>, count |-> 0]
    ELSE
        LET r == osusat_slog_flush(entries,
                     [sequence |-> 0, payload_offset |-> 0,
                      entries_processed |-> 0], active, initialized)
            last == IF r.ctx.payload_offset > 0
                    THEN send_log_packet(r.ctx, active, initialized).ports
                    ELSE <<>>
        IN  [pending |-> <<>>, ports |-> r.ports \o last,
             count |-> Len(entries)]

logging_flush(entries, active, initialized) ==
    IF ~initialized[active] THEN
        [pending |-> entries, ports |-> <<>>, count |-> 0]
    ELSE IF Len(entries) = 0 THEN
        [pending |-> entries, ports |-> <<>>, count |-> 0]
    ELSE
        LET r == osusat_slog_flush(entries,
                     [sequence |-> 0, payload_offset |-> 0,
                      entries_processed |-> 0], active, initialized)
            last == IF r.ctx.payload_offset > 0
                    THEN send_log_packet(r.ctx, active, initialized).ports
                    ELSE <<>>
        IN  [pending |-> <<>>, ports |-> r.ports \o last,
             count |-> Len(entries)]

(***************************************************************************)
(* Inputs of the reassembly engine.                                        *)
(***************************************************************************)
SeqsUpTo(S, n) == UNION {[1 .. k -> S] : k \in 0 .. n}

\* packets whose frame fits a pool buffer
ValidPackets ==
    {[version |-> OSUSAT_PROTOCOL_VERSION, payload |-> pl] :
        pl \in SeqsUpTo(Byte, UART_RX_MAX_PACKET_SIZE - OSUSAT_FRAME_OVERHEAD)}

RECURSIVE Frames(_)
Frames(ps) == IF ps = <<>> THEN <<>>
              ELSE osusat_packet_pack(Head(ps)) \o Frames(Tail(ps))

EmptyPacket == [version |-> OSUSAT_PROTOCOL_VERSION, payload |-> <<>>]

\* s with the byte at position i replaced by b
Replace(s, i, b) == [k \in 1 .. Len(s) |-> IF k = i THEN b ELSE s[k]]

\* frames of valid packets with the version byte or the trailer changed
CorruptFrames ==
    {Replace(osusat_packet_pack(p), i, b) :
        p \in ValidPackets, i \in {2}, b \in Byte \ {OSUSAT_PROTOCOL_VERSION}}
    \cup
    UNION {{Replace(osusat_packet_pack(p), Len(osusat_packet_pack(p)), b) :
              b \in Byte \ {osusat_packet_pack(p)[Len(osusat_packet_pack(p))]}} :
           p \in ValidPackets}

\* start byte and header announcing a payload that does not fit a pool buffer
OversizeHeaders ==
    {<<OSUSAT_START_BYTE, v, l>> :
        v \in {OSUSAT_PROTOCOL_VERSION},
        l \in {x \in Byte : OSUSAT_FRAME_OVERHEAD + x > UART_RX_MAX_PACKET_SIZE}}

\* an input: noise bytes, then the frames of some packets, or raw bytes, or
\* a corrupt frame in front of a valid one, or an oversize header and bytes
RxInputs ==
    {[kind |-> "frames", noise |-> <<>>, packets |-> ps] :
        ps \in SeqsUpTo(ValidPackets, MaxFrames)}
    \cup
    {[kind |-> "noise", noise |-> nz, packets |-> <<p>>] :
        nz \in SeqsUpTo(Byte \ {OSUSAT_START_BYTE}, MaxNoise), p \in ValidPackets}
    \cup
    {[kind |-> "raw", noise |-> raw, packets |-> <<>>] :
        raw \in SeqsUpTo(Byte, MaxStream)}
    \cup
    {[kind |-> "bad", noise |-> bad, packets |-> <<EmptyPacket>>] :
        bad \in CorruptFrames}
    \cup
    {[kind |-> "oversize", noise |-> hdr \o fill, packets |-> <<>>] :
        hdr \in OversizeHeaders,
        fill \in [1 .. (UART_RX_MAX_PACKET_SIZE - MIN_HEADER_BYTES + 1) -> Byte]}

InputBytes(inp) == inp.noise \o Frames(inp.packets)

(***************************************************************************)
(* The event bus as the redundancy manager sees it: the handlers that      *)
(* redundancy_manager_init subscribes.                                     *)
(***************************************************************************)
\* the ids with a service uid to which redundancy_manager_init subscribes
\* redundancy_manager_handle_battery_fault
BatterySubscriptions == {BATTERY_EVENT_FAULT_DETECTED, BATTERY_EVENT_CRITICAL_LOW}

\* the request ids to which it subscribes redundancy_manager_handle_request
RequestSubscriptions ==
    {APP_EVENT_REQUEST_REDUNDANCY_HEALTH,
     APP_EVENT_REQUEST_REDUNDANCY_COMPONENT_STATUS,
     APP_EVENT_REQUEST_REDUNDANCY_FAULT_LIST,
     APP_EVENT_REQUEST_REDUNDANCY_CLEAR_FAULT,
     APP_EVENT_REQUEST_REDUNDANCY_CLEAR_ALL}

\* dispatch of an event of a service (battery, MPPT, rail) to the manager
osusat_event_bus_dispatch(m, e, now) ==
    IF e.id \in BatterySubscriptions THEN
        redundancy_manager_handle_battery_fault(m, e, now)
    ELSE FmRes(m, <<>>)

\* dispatch of a UART or application event to the manager
osusat_event_bus_dispatch_named(m, e, now) ==
    IF e.id \in RequestSubscriptions THEN
        redundancy_manager_handle_request(m, e, now)
    ELSE FmRes(m, <<>>)

(***************************************************************************)
(* The rail controller (rail_controller.c).  Voltages are in millivolts    *)
(* and currents in milliamperes.                                           *)
(***************************************************************************)
NUM_POWER_RAILS == 8
RAIL_CONTROLLER_UPDATE_INTERVAL_TICKS == 10
TELEMETRY_INTERVAL_CYCLES == 600

RAIL_CONTROLLER_SERVICE_ID == "AC25"
RAIL_CONTROLLER_FAULT_DETECTED == 16
RAIL_CONTROLLER_OVERCURRENT_DETECTED == 17
RAIL_CONTROLLER_UNDERVOLTAGE_DETECTED == 18
RAIL_CONTROLLER_OVERVOLTAGE_DETECTED == 19
RAIL_CONTROLLER_TELEMETRY == 21

RAIL_CONTROLLER_EVENT_OVERCURRENT_DETECTED ==
    OSUSAT_BUILD_EVENT_ID(RAIL_CONTROLLER_SERVICE_ID,
                          RAIL_CONTROLLER_OVERCURRENT_DETECTED)
RAIL_CONTROLLER_EVENT_UNDERVOLTAGE_DETECTED ==
    OSUSAT_BUILD_EVENT_ID(RAIL_CONTROLLER_SERVICE_ID,
                          RAIL_CONTROLLER_UNDERVOLTAGE_DETECTED)
RAIL_CONTROLLER_EVENT_OVERVOLTAGE_DETECTED ==
    OSUSAT_BUILD_EVENT_ID(RAIL_CONTROLLER_SERVICE_ID,
                          RAIL_CONTROLLER_OVERVOLTAGE_DETECTED)
RAIL_CONTROLLER_EVENT_TELEMETRY ==
    OSUSAT_BUILD_EVENT_ID(RAIL_CONTROLLER_SERVICE_ID, RAIL_CONTROLLER_TELEMETRY)

RAIL_STATUS_OK == "RAIL_STATUS_OK"
RAIL_STATUS_DISABLED == "RAIL_STATUS_DISABLED"
RAIL_STATUS_OVERCURRENT == "RAIL_STATUS_OVERCURRENT"
RAIL_STATUS_UNDERVOLTAGE == "RAIL_STATUS_UNDERVOLTAGE"
RAIL_STATUS_OVERVOLTAGE == "RAIL_STATUS_OVERVOLTAGE"
RAIL_STATUS_FAULT == "RAIL_STATUS_FAULT"

\* power_rail_t: the rail ids, and the seven rails eps_config.h names
RailIds == 0 .. (NUM_POWER_RAILS - 1)
RAIL_OBC == 0
RAIL_RADIO == 1
RAIL_GPS == 2
RAIL_PAYLOAD_1 == 3
RAIL_PAYLOAD_2 == 4
RAIL_5V_BUS == 5
RAIL_3V3_BUS == 6

RailConfig(vmin, vmax, limit) ==
    [voltage_min |-> vmin, voltage_max |-> vmax, current_limit |-> limit]

\* RAIL_CONFIGS; the eighth element has no initializer and is all zero
RAIL_CONFIGS ==
    [r \in RailIds |->
        CASE r = RAIL_OBC -> RailConfig(3000, 3600, 2000)
          [] r = RAIL_RADIO -> RailConfig(4750, 5250, 1500)
          [] r = RAIL_GPS -> RailConfig(3000, 3600, 500)
          [] r = RAIL_PAYLOAD_1 -> RailConfig(4750, 5250, 3000)
          [] r = RAIL_PAYLOAD_2 -> RailConfig(4750, 5250, 3000)
          [] r = RAIL_5V_BUS -> RailConfig(4750, 5250, 5000)
          [] r = RAIL_3V3_BUS -> RailConfig(3000, 3600, 4000)
          [] OTHER -> RailConfig(0, 0, 0)]

\* rail_controller_init: every rail disabled
rail_controller_init ==
    [rails |-> [r \in RailIds |->
                   [rail_id |-> r, voltage |-> 0, current |-> 0,
                    status |-> RAIL_STATUS_DISABLED, enabled |-> FALSE]],
     initialized |-> TRUE,
     tick_counter |-> 0,
     telemetry_tick_counter |-> 0]

\* the status the threshold chain of rail_controller_handle_update selects
rail_new_status(config, voltage, current) ==
    IF current > config.current_limit THEN RAIL_STATUS_OVERCURRENT
    ELSE IF voltage < config.voltage_min THEN RAIL_STATUS_UNDERVOLTAGE
    ELSE IF voltage > config.voltage_max THEN RAIL_STATUS_OVERVOLTAGE
    ELSE RAIL_STATUS_OK

\* the event id the threshold chain selects together with the status
rail_event_id(status) ==
    CASE status = RAIL_STATUS_OVERCURRENT ->
            RAIL_CONTROLLER_EVENT_OVERCURRENT_DETECTED
      [] status = RAIL_STATUS_UNDERVOLTAGE ->
            RAIL_CONTROLLER_EVENT_UNDERVOLTAGE_DETECTED
      [] status = RAIL_STATUS_OVERVOLTAGE ->
            RAIL_CONTROLLER_EVENT_OVERVOLTAGE_DETECTED

\* the loop body that keeps a faulted rail powered
rail_update_one_no_disable(rail, config, voltage, current) ==
    LET stored == [rail EXCEPT !.current = voltage, !.voltage = current]
        new_status == rail_new_status(config, voltage, current)
    IN  IF ~rail.enabled THEN [rail |-> stored, out |-> <<>>]
        ELSE IF new_status # rail.status THEN
            IF new_status # RAIL_STATUS_OK THEN
                [rail |-> [stored EXCEPT !.status = new_status],
                 out |-> <<[id |-> rail_event_id(new_status),
                            payload |-> rail.rail_id]>>]
            ELSE [rail |-> [stored EXCEPT !.status = new_status], out |-> <<>>]
        ELSE [rail |-> stored, out |-> <<>>]

\* one iteration of the loop of rail_controller_handle_update: the reading is
\* stored (voltage into current, current into voltage, as the code does), a
\* disabled rail is skipped, a changed status is stored, and a fault status
\* is published and switches the rail off
rail_update_one(rail, config, voltage, current) ==
    LET stored == [rail EXCEPT !.current = voltage, !.voltage = current]
        new_status == rail_new_status(config, voltage, current)
    IN  IF ~rail.enabled THEN [rail |-> stored, out |-> <<>>]
        ELSE IF new_status # rail.status THEN
            IF new_status # RAIL_STATUS_OK THEN
                [rail |-> [stored EXCEPT !.status = new_status,
                                         !.enabled = FALSE],
                 out |-> <<[id |-> rail_event_id(new_status),
                            payload |-> rail.rail_id]>>]
            ELSE [rail |-> [stored EXCEPT !.status = new_status], out |-> <<>>]
        ELSE [rail |-> stored, out |-> <<>>]

\* the events of the iterations r .. NUM_POWER_RAILS - 1, in order
RECURSIVE rail_update_events(_, _, _)
rail_update_events(c, reading, r) ==
    IF r >= NUM_POWER_RAILS THEN <<>>
    ELSE rail_update_one(c.rails[r], RAIL_CONFIGS[r], reading[r].voltage,
                         reading[r].current).out
         \o rail_update_events(c, reading, r + 1)

\* rail_controller_handle_update with the sensor readings reading[r]
rail_controller_handle_update(c, reading) ==
    [c |-> [c EXCEPT !.rails =
               [r \in RailIds |->
                   rail_update_one(c.rails[r], RAIL_CONFIGS[r],
                                   reading[r].voltage, reading[r].current).rail]],
     out |-> rail_update_events(c, reading, 0)]

\* the telemetry events of rail_controller_handle_tick, one per rail
rail_telemetry(c) ==
    [k \in 1 .. NUM_POWER_RAILS |->
        [id |-> RAIL_CONTROLLER_EVENT_TELEMETRY, payload |-> c.rails[k - 1]]]

\* rail_controller_handle_tick
rail_controller_handle_tick(c, reading) ==
    IF ~c.initialized THEN [c |-> c, out |-> <<>>]
    ELSE
        LET due == c.tick_counter + 1 >= RAIL_CONTROLLER_UPDATE_INTERVAL_TICKS
            u == IF due THEN
                     rail_controller_handle_update(
                         [c EXCEPT !.tick_counter = 0], reading)
                 ELSE [c |-> [c EXCEPT !.tick_counter = @ + 1], out |-> <<>>]
            tdue == u.c.telemetry_tick_counter + 1 >= TELEMETRY_INTERVAL_CYCLES
            c2 == [u.c EXCEPT !.telemetry_tick_counter =
                                  IF tdue THEN 0 ELSE @ + 1]
        IN  [c |-> c2,
             out |-> IF tdue THEN u.out \o rail_telemetry(c2) ELSE u.out]

\* rail_controller_enable and rail_controller_disable: stubs that only print
rail_controller_enable(c, rail) == c
rail_controller_disable(c, rail) == c

\* application requests handled by the rail controller (app/events.h)
APP_SERVICE_UID == "A00"
REQUEST_RAIL_CONTROLLER_ENABLE_RAIL == 20
REQUEST_RAIL_CONTROLLER_DISABLE_RAIL == 21
APP_EVENT_REQUEST_RAIL_CONTROLLER_ENABLE_RAIL ==
    OSUSAT_BUILD_EVENT_ID(APP_SERVICE_UID, REQUEST_RAIL_CONTROLLER_ENABLE_RAIL)
APP_EVENT_REQUEST_RAIL_CONTROLLER_DISABLE_RAIL ==
    OSUSAT_BUILD_EVENT_ID(APP_SERVICE_UID, REQUEST_RAIL_CONTROLLER_DISABLE_RAIL)

\* handle_profile_request_event of rail_controller.c
rail_handle_profile_request_event(c, e) ==
    IF Len(e.payload) # 1 THEN c
    ELSE IF e.id = APP_EVENT_REQUEST_RAIL_CONTROLLER_ENABLE_RAIL THEN
        rail_controller_enable(c, e.payload[1])
    ELSE IF e.id = APP_EVENT_REQUEST_RAIL_CONTROLLER_DISABLE_RAIL THEN
        rail_controller_disable(c, e.payload[1])
    ELSE c

(***************************************************************************)
(* Power profiles (power_profiles.c, eps_power_profiles.h).                *)
(***************************************************************************)
POWER_PROFILE_NOMINAL == 0
POWER_PROFILE_SAFE == 1
POWER_PROFILE_SUCCESS == "POWER_PROFILE_SUCCESS"
POWER_PROFILE_ERROR_INVALID_PROFILE == "POWER_PROFILE_ERROR_INVALID_PROFILE"

nominal_mode_rails == <<RAIL_OBC, RAIL_RADIO, RAIL_GPS, RAIL_PAYLOAD_1>>
safe_mode_rails == <<RAIL_OBC>>

REQUEST_POWER_PROFILE_NOMINAL == 16
REQUEST_POWER_PROFILE_SAFE == 17
APP_EVENT_REQUEST_POWER_PROFILE_NOMINAL ==
    OSUSAT_BUILD_EVENT_ID(APP_SERVICE_UID, REQUEST_POWER_PROFILE_NOMINAL)
APP_EVENT_REQUEST_POWER_PROFILE_SAFE ==
    OSUSAT_BUILD_EVENT_ID(APP_SERVICE_UID, REQUEST_POWER_PROFILE_SAFE)

\* _select_power_rails that takes an unknown profile for the safe one
select_power_rails_default_safe(profile) ==
    CASE profile = POWER_PROFILE_NOMINAL ->
            [status |-> POWER_PROFILE_SUCCESS, rails |-> nominal_mode_rails]
      [] OTHER ->
            [status |-> POWER_PROFILE_SUCCESS, rails |-> safe_mode_rails]

\* _select_power_rails: the rails of a profile
select_power_rails(profile) ==
    CASE profile = POWER_PROFILE_NOMINAL ->
            [status |-> POWER_PROFILE_SUCCESS, rails |-> nominal_mode_rails]
      [] profile = POWER_PROFILE_SAFE ->
            [status |-> POWER_PROFILE_SUCCESS, rails |-> safe_mode_rails]
      [] OTHER ->
            [status |-> POWER_PROFILE_ERROR_INVALID_PROFILE, rails |-> <<>>]

\* a call of rail_controller_enable ("enable") or rail_controller_disable
RailCmd(op, rail) == [op |-> op, rail |-> rail]

\* the rail controller after the calls cmds, in order
RECURSIVE apply_rail_cmds(_, _)
apply_rail_cmds(c, cmds) ==
    IF cmds = <<>> THEN c
    ELSE apply_rail_cmds(
             IF Head(cmds).op = "enable"
             THEN rail_controller_enable(c, Head(cmds).rail)
             ELSE rail_controller_disable(c, Head(cmds).rail),
             Tail(cmds))

\* the loop of power_profiles_enable / power_profiles_disable over info.rails
profile_rail_loop(c, op, profile) ==
    LET info == select_power_rails(profile)
    IN  IF info.status # POWER_PROFILE_SUCCESS THEN
            [c |-> c, cmds |-> <<>>, status |-> info.status]
        ELSE LET cmds == [i \in 1 .. Len(info.rails) |->
                             RailCmd(op, info.rails[i])]
             IN  [c |-> apply_rail_cmds(c, cmds), cmds |-> cmds,
                  status |-> POWER_PROFILE_SUCCESS]

\* power_profiles_enable: rail controller after, calls made, status returned
power_profiles_enable(c, profile) == profile_rail_loop(c, "enable", profile)

\* power_profiles_disable
power_profiles_disable(c, profile) == profile_rail_loop(c, "disable", profile)

\* power_profiles_init
power_profiles_init(c) ==
    LET r == power_profiles_enable(c, POWER_PROFILE_SAFE)
    IN  [p |-> [initialized |-> TRUE, current_profile |-> POWER_PROFILE_SAFE],
         c |-> r.c, cmds |-> r.cmds]

\* handle_profile_request_event that switches without disabling the old rails
handle_profile_request_event_no_disable(p, c, e) ==
    IF e.id \notin {APP_EVENT_REQUEST_POWER_PROFILE_NOMINAL,
                    APP_EVENT_REQUEST_POWER_PROFILE_SAFE}
    THEN [p |-> p, c |-> c, cmds |-> <<>>]
    ELSE LET requested == IF e.id = APP_EVENT_REQUEST_POWER_PROFILE_NOMINAL
                          THEN POWER_PROFILE_NOMINAL ELSE POWER_PROFILE_SAFE
         IN  IF p.current_profile # requested THEN
                 LET en == power_profiles_enable(c, requested)
                 IN  [p |-> [p EXCEPT !.current_profile = requested],
                      c |-> en.c, cmds |-> en.cmds]
             ELSE [p |-> p, c |-> c, cmds |-> <<>>]

\* handle_profile_request_event of power_profiles.c
handle_profile_request_event(p, c, e) ==
    IF e.id \notin {APP_EVENT_REQUEST_POWER_PROFILE_NOMINAL,
                    APP_EVENT_REQUEST_POWER_PROFILE_SAFE}
    THEN [p |-> p, c |-> c, cmds |-> <<>>]
    ELSE LET requested == IF e.id = APP_EVENT_REQUEST_POWER_PROFILE_NOMINAL
                          THEN POWER_PROFILE_NOMINAL ELSE POWER_PROFILE_SAFE
         IN  IF p.current_profile # requested THEN
                 LET dis == power_profiles_disable(c, p.current_profile)
                     en == power_profiles_enable(dis.c, requested)
                 IN  [p |-> [p EXCEPT !.current_profile = requested],
                      c |-> en.c, cmds |-> dis.cmds \o en.cmds]
             ELSE [p |-> p, c |-> c, cmds |-> <<>>]

(***************************************************************************)
(* Battery management (battery_management.c).  Voltages in millivolts.  The *)
(* two static counters of the file are fields of the record.                *)
(***************************************************************************)
BATTERY_UPDATE_INTERVAL_TICKS == 10
\* const float CRITICAL_THRESHOLD = 3.3f
CRITICAL_THRESHOLD == 3300
BATTERY_SELF_CHECK_PASSED == 17
BATTERY_CHARGING_CHANGE == 20
BATTERY_TELEMETRY == 22
BATTERY_EVENT_SELF_CHECK_PASSED ==
    OSUSAT_BUILD_EVENT_ID(BATTERY_SERVICE_UID, BATTERY_SELF_CHECK_PASSED)
BATTERY_EVENT_CHARGING_CHANGE ==
    OSUSAT_BUILD_EVENT_ID(BATTERY_SERVICE_UID, BATTERY_CHARGING_CHANGE)
BATTERY_EVENT_TELEMETRY ==
    OSUSAT_BUILD_EVENT_ID(BATTERY_SERVICE_UID, BATTERY_TELEMETRY)

\* battery_run_diagnostics: always healthy
battery_run_diagnostics == TRUE

\* battery_init: the manager and the event it publishes
battery_init ==
    [b |-> [battery_status |-> [voltage |-> 0, charging |-> FALSE,
                                protection |-> FALSE],
            initialized |-> battery_run_diagnostics,
            tick_counter |-> 0, telemetry_tick_counter |-> 0],
     out |-> IF battery_run_diagnostics
             THEN <<Event(BATTERY_EVENT_SELF_CHECK_PASSED, <<>>)>>
             ELSE <<Event(BATTERY_EVENT_SELF_CHECK_FAILED, <<1>>)>>]

\* battery_charge_control
battery_charge_control(b, enable) ==
    IF ~b.initialized THEN [b |-> b, out |-> <<>>]
    ELSE [b |-> [b EXCEPT !.battery_status.charging = enable],
          out |-> <<Event(BATTERY_EVENT_CHARGING_CHANGE, enable)>>]

\* battery_protect_mode that leaves the charger as it is
battery_protect_mode_keeps_charging(b) ==
    LET b1 == [b EXCEPT !.battery_status.protection = TRUE]
    IN  [b |-> b1,
         out |-> <<Event(BATTERY_EVENT_FAULT_DETECTED, b1.battery_status)>>]

\* battery_protect_mode
battery_protect_mode(b) ==
    LET cc == battery_charge_control(b, FALSE)
        b1 == [cc.b EXCEPT !.battery_status.protection = TRUE]
    IN  [b |-> b1,
         out |-> cc.out \o
                 <<Event(BATTERY_EVENT_FAULT_DETECTED, b1.battery_status)>>]

\* battery_perform_update that enters protect mode on every low reading
battery_perform_update_unlatched(b, voltage) ==
    LET b0 == [b EXCEPT !.battery_status.voltage = voltage]
        pr == IF voltage < CRITICAL_THRESHOLD
              THEN LET r == battery_protect_mode(b0)
                   IN  [b |-> r.b,
                        out |-> r.out \o
                                <<Event(BATTERY_EVENT_CRITICAL_LOW, voltage)>>]
              ELSE [b |-> b0, out |-> <<>>]
        tdue == pr.b.telemetry_tick_counter + 1 >= TELEMETRY_INTERVAL_CYCLES
        b2 == [pr.b EXCEPT !.telemetry_tick_counter = IF tdue THEN 0 ELSE @ + 1]
    IN  [b |-> b2,
         out |-> IF tdue
                 THEN pr.out \o <<Event(BATTERY_EVENT_TELEMETRY,
                                        b2.battery_status)>>
                 ELSE pr.out]

\* battery_perform_update with the voltage the sensor reads
battery_perform_update(b, voltage) ==
    LET b0 == [b EXCEPT !.battery_status.voltage = voltage]
        pr == IF voltage < CRITICAL_THRESHOLD /\ ~b0.battery_status.protection
              THEN LET r == battery_protect_mode(b0)
                   IN  [b |-> r.b,
                        out |-> r.out \o
                                <<Event(BATTERY_EVENT_CRITICAL_LOW, voltage)>>]
              ELSE [b |-> b0, out |-> <<>>]
        tdue == pr.b.telemetry_tick_counter + 1 >= TELEMETRY_INTERVAL_CYCLES
        b2 == [pr.b EXCEPT !.telemetry_tick_counter = IF tdue THEN 0 ELSE @ + 1]
    IN  [b |-> b2,
         out |-> IF tdue
                 THEN pr.out \o <<Event(BATTERY_EVENT_TELEMETRY,
                                        b2.battery_status)>>
                 ELSE pr.out]

\* battery_handle_tick
battery_handle_tick(b, voltage) ==
    IF ~b.initialized THEN [b |-> b, out |-> <<>>]
    ELSE IF b.tick_counter + 1 >= BATTERY_UPDATE_INTERVAL_TICKS THEN
        battery_perform_update([b EXCEPT !.tick_counter = 0], voltage)
    ELSE [b |-> [b EXCEPT !.tick_counter = @ + 1], out |-> <<>>]

VARIABLES
    input,      \* the input chosen for this run (never changes)
    stream,     \* bytes of the input the DMA has not delivered yet
    rx_ring,    \* g_uart_state[port].rx_ring
    chunk,      \* bytes read by hal_uart_read and not yet processed
    draining,   \* TRUE while uart_process_incoming_stream is running
    deliveries, \* number of DMA deliveries so far (history)
    rx,         \* RxCtx: uart_events_t, published events, last decode result
    last_dma_pos, \* g_uart_state[port].last_dma_pos
    hw_error,   \* line errors reported so far, and whether one hit a partial frame (history)
    manager,    \* redundancy_manager_t
    out,        \* events published by the handler that ran last, in order
    lastOp,     \* the handler that ran last and its input (history)
    published_health, \* payload of the last health event published (history)
    clock,      \* hal_time_get_ms(); advances with every handler
    deadline,   \* the exploration stops when the clock reaches it
    seed,       \* the scripted reports that pre-fill the table, if any
    g_active_uart,    \* logging.c: the uart_events_t used for flushing
    uart_initialized, \* the initialized flag of the two uart_events_t
    tick_counter,     \* logging.c: ticks since the last periodic flush
    pending,          \* sizes of the entries pending in the log ring
    sent,       \* packets written by the logging handler that ran last (history)
    route,      \* last redundancy event that named the primary UART (history)
    used_aux,   \* some packet went out through the secondary port (history)
    flush_count, \* what the logging_flush of the last step returned, -1 if none
    rc,         \* rail_controller_t
    rc_bus,     \* events published by the rail controller so far, in order
    rail_env,   \* the monitored rails, the last readings, the updates so far (history)
    dispatched, \* number of published events the event bus has dispatched
    profiles,   \* the power_profiles_t
    rail_cmds,  \* calls of rail_controller_enable/_disable so far (history)
    pp_last,    \* the last operation on the power profiles (history)
    battery,    \* the battery_management_t and the static counters
    bat_bus,    \* the events the battery service published in the last step
    bat_env     \* ticks and updates so far, last reading and step (history)

rxVars == <<input, stream, rx_ring, chunk, draining, deliveries, rx,
            last_dma_pos, hw_error>>
fmVars == <<clock, manager, out, lastOp, published_health, deadline, seed>>
logVars == <<g_active_uart, uart_initialized, tick_counter, pending, sent,
             route, used_aux, flush_count>>
railVars == <<rc, rc_bus, rail_env, dispatched>>
ppVars == <<profiles, rail_cmds, pp_last>>
batVars == <<bat_env, battery, bat_bus>>
svcVars == <<railVars, ppVars, batVars>>
vars == <<rxVars, fmVars, logVars, svcVars>>

\* no rail monitored, no reading taken yet
NoReading == [r \in RailIds |-> [voltage |-> 0, current |-> 0]]
NoRailEnv == [live |-> {}, reading |-> NoReading, updates |-> 0, op |-> "none"]

\* the rail controller after rail_controller_init, no tick handled
RailIdle ==
    /\ rc = rail_controller_init
    /\ rc_bus = <<>>
    /\ rail_env = NoRailEnv
    /\ dispatched = 0

\* no operation of the power profiles after power_profiles_init
NoEvent == [uid |-> "none", code |-> 0]
PpInitOp == [op |-> "init", event |-> NoEvent, profile |-> -1, ret |-> "none",
             from |-> 0, steps |-> 0]

\* the power profiles after power_profiles_init on the constructed controller
PpIdle ==
    /\ profiles = power_profiles_init(rail_controller_init).p
    /\ rail_cmds = power_profiles_init(rail_controller_init).cmds
    /\ pp_last = PpInitOp

\* the battery service after battery_init, no tick handled
BatIdle ==
    /\ battery = battery_init.b
    /\ bat_bus = battery_init.out
    /\ bat_env = [ticks |-> 0, updates |-> 0, reading |-> 0, op |-> "init",
                  before |-> battery_init.b.battery_status]

SvcIdle == RailIdle /\ PpIdle /\ BatIdle

\* the logging service after logging_init, nothing logged
LogIdle ==
    /\ g_active_uart = PRIMARY_UART
    /\ uart_initialized = [u \in {PRIMARY_UART, AUX_UART} |-> TRUE]
    /\ tick_counter = 0
    /\ pending = <<>>
    /\ sent = <<>>
    /\ route = "none"
    /\ used_aux = FALSE
    /\ flush_count = -1

\* the reassembly engine as constructed, with no input
\* no line error reported yet
NoHwError == [count |-> 0, midframe |-> FALSE]

RxIdle ==
    /\ input = [kind |-> "raw", noise |-> <<>>, packets |-> <<>>]
    /\ stream = <<>>
    /\ rx_ring = <<>>
    /\ chunk = <<>>
    /\ draining = FALSE
    /\ deliveries = 0
    /\ rx = RxCtx(uart_events_init, <<>>, "none")
    /\ last_dma_pos = 0
    /\ hw_error = NoHwError

NoOp == [op |-> "none"]
NoSeed == [kind |-> "none", n |-> 0]

\* the fault engine as constructed; init publishes HEALTH_RECOVERED (OK)
FmIdle ==
    /\ manager = redundancy_manager_init
    /\ out = <<>>
    /\ lastOp = NoOp
    /\ published_health = SYSTEM_HEALTH_OK
    /\ clock = 0
    /\ deadline = 0
    /\ seed = NoSeed
    /\ LogIdle

RxInit ==
    /\ SvcIdle
    /\ input \in RxInputs
    /\ stream = InputBytes(input)
    /\ rx_ring = <<>>
    /\ chunk = <<>>
    /\ draining = FALSE
    /\ deliveries = 0
    /\ rx = RxCtx(uart_events_init, <<>>, "none")
    /\ last_dma_pos = 0
    /\ hw_error = NoHwError
    /\ FmIdle

\* process_dma_input: interrupt context, pushes the newly arrived bytes
process_dma_input ==
    /\ stream # <<>>
    /\ \E k \in 1 .. Len(stream) :
         /\ rx_ring' = PushAll(rx_ring, SubSeq(stream, 1, k))
         /\ stream' = SubSeq(stream, k + 1, Len(stream))
         /\ last_dma_pos' = (last_dma_pos + k) % DMA_BUFFER_SIZE
    /\ deliveries' = deliveries + 1
    /\ UNCHANGED <<input, chunk, draining, rx, hw_error, fmVars, logVars, svcVars>>

\* uart_handle_tick that restarts the state machine on every tick
uart_handle_tick_restarts ==
    /\ ~draining
    /\ rx.uart.initialized
    /\ draining' = TRUE
    /\ rx' = [rx EXCEPT !.uart.rx_state = RX_STATE_WAIT_START_BYTE,
                        !.uart.decode_index = 0]
    /\ UNCHANGED <<input, stream, rx_ring, chunk, deliveries, last_dma_pos,
                   hw_error, fmVars, logVars, svcVars>>

\* uart_handle_tick: the tick event starts a drain of the ring buffer
uart_handle_tick ==
    /\ ~draining
    /\ rx.uart.initialized
    /\ draining' = TRUE
    /\ UNCHANGED <<input, stream, rx_ring, chunk, deliveries, rx, last_dma_pos,
                   hw_error, fmVars, logVars, svcVars>>

\* uart_process_incoming_stream: one hal_uart_read of the while loop
uart_process_incoming_stream ==
    /\ draining
    /\ chunk = <<>>
    /\ LET r == hal_uart_read(rx_ring, UART_READ_CHUNK)
       IN  /\ rx_ring' = r.ring
           /\ chunk' = r.out
           /\ draining' = (Len(r.out) > 0)
           /\ rx' = [rx EXCEPT !.uart.rx_byte_count = @ + Len(r.out)]
    /\ UNCHANGED <<input, stream, deliveries, last_dma_pos, hw_error, fmVars,
                   logVars, svcVars>>

\* the for loop of uart_process_incoming_stream: one uart_process_byte
uart_process_chunk_byte ==
    /\ draining
    /\ chunk # <<>>
    /\ rx' = uart_process_byte(rx, Head(chunk))
    /\ chunk' = Tail(chunk)
    /\ hw_error' = IF Head(chunk) = OSUSAT_START_BYTE
                   THEN [hw_error EXCEPT !.midframe = FALSE]
                   ELSE hw_error
    /\ UNCHANGED <<input, stream, rx_ring, draining, deliveries, last_dma_pos,
                   fmVars, logVars, svcVars>>

RxNext ==
    \/ process_dma_input
    \/ uart_handle_tick
    \/ uart_process_incoming_stream
    \/ uart_process_chunk_byte

SpecRx == RxInit /\ [][RxNext]_vars

\* the line errors HAL_UART_ErrorCallback tells apart
UART_HAL_ERR_OVERRUN == "UART_HAL_ERR_OVERRUN"
UART_HAL_ERR_NOISE == "UART_HAL_ERR_NOISE"
UART_HAL_ERR_FRAMING == "UART_HAL_ERR_FRAMING"
UART_HAL_ERR_PARITY == "UART_HAL_ERR_PARITY"
UART_HAL_ERR_UNKNOWN == "UART_HAL_ERR_UNKNOWN"
uart_error_t ==
    {UART_HAL_ERR_OVERRUN, UART_HAL_ERR_NOISE, UART_HAL_ERR_FRAMING,
     UART_HAL_ERR_PARITY, UART_HAL_ERR_UNKNOWN}

\* on_hal_error_notify: the error hook of the UART events service
on_hal_error_notify(c, err) ==
    [c EXCEPT !.bus = Append(@, [id |-> UART_EVENT_ERROR_DETECTED,
                                 payload |-> err])]

\* HAL_UART_ErrorCallback: interrupt context.  Calls the error hook, then
\* restarts the circular DMA when the HAL has stopped reception (ready).
HAL_UART_ErrorCallback ==
    /\ hw_error.count < MaxHwErrors
    /\ \E err \in uart_error_t, ready \in BOOLEAN :
         /\ rx' = on_hal_error_notify(rx, err)
         /\ last_dma_pos' = IF ready THEN 0 ELSE last_dma_pos
    /\ hw_error' =
         [count |-> hw_error.count + 1,
          midframe |-> IF rx_ring = <<>> /\ chunk = <<>>
                       THEN rx.uart.rx_state \in {RX_STATE_READ_HEADER,
                                                  RX_STATE_READ_PAYLOAD}
                       ELSE hw_error.midframe]
    /\ UNCHANGED <<input, stream, rx_ring, chunk, draining, deliveries, fmVars,
                   logVars, svcVars>>

\* the bytes of a frame that arrived before the line cut it short
CutFrames ==
    UNION {{SubSeq(osusat_packet_pack(p), 1, n) :
               n \in 1 .. (Len(osusat_packet_pack(p)) - 1)} : p \in ValidPackets}

\* a frame cut short and a valid frame behind it, line errors at any moment
RxErrInit ==
    /\ SvcIdle
    /\ input \in {[kind |-> "cut", noise |-> cut, packets |-> <<EmptyPacket>>] :
                      cut \in CutFrames}
    /\ stream = InputBytes(input)
    /\ rx_ring = <<>>
    /\ chunk = <<>>
    /\ draining = FALSE
    /\ deliveries = 0
    /\ rx = RxCtx(uart_events_init, <<>>, "none")
    /\ last_dma_pos = 0
    /\ hw_error = NoHwError
    /\ FmIdle

\* every byte of the input has been delivered and handled
RxDrained == stream = <<>> /\ rx_ring = <<>> /\ chunk = <<>>

(***************************************************************************)
(* The fault engine driven by its handlers.                                *)
(***************************************************************************)
UART_SERVICE_UID == "UART"
MPPT_CONTROLLER_SERVICE_ID == "AB77"
MPPT_FAULT_DETECTED == 16
UART_FAULT_LOCAL_CODE == 1

\* local code of the i-th event used to pre-fill a table
SeedCode(i) == 32 + i
FreshCode == SeedCode(4 * REDUNDANCY_MANAGER_MAX_FAULTS)

BatteryEvents ==
    {[id |-> OSUSAT_BUILD_EVENT_ID(BATTERY_SERVICE_UID, c), payload |-> <<>>] :
        c \in {BATTERY_FAULT_DETECTED, BATTERY_SELF_CHECK_FAILED,
               BATTERY_CRITICAL_LOW, SeedCode(0), FreshCode}}
MpptEvents ==
    {[id |-> OSUSAT_BUILD_EVENT_ID(MPPT_CONTROLLER_SERVICE_ID, MPPT_FAULT_DETECTED),
      payload |-> <<>>]}
RailEvents ==
    {[id |-> OSUSAT_BUILD_EVENT_ID(RAIL_CONTROLLER_SERVICE_ID,
                                   RAIL_CONTROLLER_FAULT_DETECTED),
      payload |-> <<>>]}
\* payload[0] is the UART port; an empty payload has payload_len 0
UartEvents ==
    {[id |-> OSUSAT_BUILD_EVENT_ID(UART_SERVICE_UID, UART_FAULT_LOCAL_CODE),
      payload |-> pl] : pl \in {<<>>, <<0>>, <<1>>, <<2>>}}

ClearKeys ==
    {[source |-> FAULT_SOURCE_BATTERY, code |-> c] :
        c \in {BATTERY_FAULT_DETECTED, BATTERY_CRITICAL_LOW,
               SeedCode(0), SeedCode(5), SeedCode(9)}}
    \cup {[source |-> FAULT_SOURCE_MPPT, code |-> MPPT_FAULT_DETECTED],
          [source |-> FAULT_SOURCE_UART, code |-> 256 + UART_FAULT_LOCAL_CODE],
          [source |-> FAULT_SOURCE_UART, code |-> 0]}

RequestEvents ==
    {[id |-> APP_EVENT_REQUEST_REDUNDANCY_HEALTH, payload |-> <<>>],
     [id |-> APP_EVENT_REQUEST_REDUNDANCY_FAULT_LIST, payload |-> <<>>],
     [id |-> APP_EVENT_REQUEST_REDUNDANCY_CLEAR_ALL, payload |-> <<>>],
     [id |-> APP_EVENT_REQUEST_REDUNDANCY_CLEAR_FAULT, payload |-> <<>>],
     [id |-> APP_EVENT_REQUEST_REDUNDANCY_COMPONENT_STATUS, payload |-> <<>>]}
    \cup {[id |-> APP_EVENT_REQUEST_REDUNDANCY_CLEAR_FAULT, payload |-> <<k>>] :
            k \in ClearKeys}
    \cup {[id |-> APP_EVENT_REQUEST_REDUNDANCY_COMPONENT_STATUS,
           payload |-> <<[component |-> c]>>] :
            c \in {COMPONENT_UART_PRIMARY, COMPONENT_UART_SECONDARY,
                   COMPONENT_COUNT}}

IsHealthEvent(ev) ==
    ev.id \in {REDUNDANCY_EVENT_CRITICAL_HEALTH, REDUNDANCY_EVENT_HEALTH_DEGRADED,
               REDUNDANCY_EVENT_HEALTH_RECOVERED}

HealthEvents(evs) == SelectSeq(evs, IsHealthEvent)

LastPublished(evs, before) ==
    IF HealthEvents(evs) = <<>> THEN before
    ELSE HealthEvents(evs)[Len(HealthEvents(evs))].payload

CountsBounded(m) == \A i \in Slots : m.faults[i].count <= MaxCount

\* one handler ran to completion with result r
FmStep(r, op) ==
    /\ seed.n <= clock
    /\ clock < deadline
    /\ CountsBounded(r.m)
    /\ manager' = r.m
    /\ out' = r.out
    /\ lastOp' = op
    /\ published_health' = LastPublished(r.out, published_health)
    /\ clock' = clock + 1
    /\ UNCHANGED <<deadline, seed, rxVars, logVars, svcVars>>

Report(source, code) == [op |-> "report", source |-> source, code |-> code]

battery_fault ==
    \E e \in BatteryEvents :
        FmStep(redundancy_manager_handle_battery_fault(manager, e, clock),
               Report(FAULT_SOURCE_BATTERY, OSUSAT_GET_LOCAL_CODE(e.id)))

mppt_fault ==
    \E e \in MpptEvents :
        FmStep(redundancy_manager_handle_mppt_fault(manager, e, clock),
               Report(FAULT_SOURCE_MPPT, OSUSAT_GET_LOCAL_CODE(e.id)))

rail_fault ==
    \E e \in RailEvents :
        FmStep(redundancy_manager_handle_rail_fault(manager, e, clock),
               Report(FAULT_SOURCE_RAIL, OSUSAT_GET_LOCAL_CODE(e.id)))

uart_fault ==
    \E e \in UartEvents :
        FmStep(redundancy_manager_handle_uart_fault(manager, e, clock),
               IF e.payload = <<>> THEN [op |-> "ignored"]
               ELSE Report(FAULT_SOURCE_UART, UartFaultCode(e)))

RequestOp(e) ==
    CASE e.id = APP_EVENT_REQUEST_REDUNDANCY_CLEAR_FAULT /\ e.payload # <<>> ->
            [op |-> "clear_fault", source |-> e.payload[1].source,
             code |-> e.payload[1].code]
      [] e.id = APP_EVENT_REQUEST_REDUNDANCY_CLEAR_ALL -> [op |-> "clear_all"]
      [] e.id = APP_EVENT_REQUEST_REDUNDANCY_FAULT_LIST -> [op |-> "fault_list"]
      [] e.id = APP_EVENT_REQUEST_REDUNDANCY_HEALTH -> [op |-> "health"]
      [] e.id = APP_EVENT_REQUEST_REDUNDANCY_COMPONENT_STATUS /\ e.payload # <<>> ->
            [op |-> "component_status", component |-> e.payload[1].component]
      [] OTHER -> [op |-> "ignored"]

request ==
    \E e \in RequestEvents :
        FmStep(redundancy_manager_handle_request(manager, e, clock), RequestOp(e))

FmNext ==
    \/ battery_fault
    \/ mppt_fault
    \/ rail_fault
    \/ uart_fault
    \/ request

FmInit ==
    /\ SvcIdle
    /\ RxIdle
    /\ LogIdle
    /\ manager = redundancy_manager_init
    /\ out = <<>>
    /\ lastOp = NoOp
    /\ published_health = SYSTEM_HEALTH_OK
    /\ clock = 0
    /\ deadline = MaxSteps
    /\ seed = NoSeed

SpecFault == FmInit /\ [][FmNext]_vars

(***************************************************************************)
(* Pre-filled fault tables: the engine is constructed, then a script of    *)
(* seed.n reports of distinct faults runs through the handlers, then the   *)
(* handlers are driven freely.                                             *)
(***************************************************************************)
SeedEvent(uid, code) == [id |-> OSUSAT_BUILD_EVENT_ID(uid, code), payload |-> <<>>]

\* the i-th report (0-based) of a script of n reports
SeedCall(kind, n, i) ==
    CASE kind = "degraded" /\ i = 0 ->
            [h |-> "mppt", e |-> SeedEvent(MPPT_CONTROLLER_SERVICE_ID, MPPT_FAULT_DETECTED)]
      [] kind = "critical" /\ i = 0 ->
            [h |-> "battery",
             e |-> SeedEvent(BATTERY_SERVICE_UID, BATTERY_CRITICAL_LOW)]
      [] kind = "critical" /\ i = 1 ->
            [h |-> "rail",
             e |-> SeedEvent(RAIL_CONTROLLER_SERVICE_ID,
                             RAIL_CONTROLLER_FAULT_DETECTED)]
      [] kind = "uart" /\ i = n - 1 ->
            [h |-> "uart",
             e |-> [id |-> OSUSAT_BUILD_EVENT_ID(UART_SERVICE_UID,
                                                 UART_FAULT_LOCAL_CODE),
                    payload |-> <<1>>]]
      [] OTHER ->
            [h |-> "battery", e |-> SeedEvent(BATTERY_SERVICE_UID, SeedCode(i))]

Handle(m, call, now) ==
    CASE call.h = "battery" -> redundancy_manager_handle_battery_fault(m, call.e, now)
      [] call.h = "mppt" -> redundancy_manager_handle_mppt_fault(m, call.e, now)
      [] call.h = "rail" -> redundancy_manager_handle_rail_fault(m, call.e, now)
      [] call.h = "uart" -> redundancy_manager_handle_uart_fault(m, call.e, now)

CallSource(call) ==
    CASE call.h = "battery" -> FAULT_SOURCE_BATTERY
      [] call.h = "mppt" -> FAULT_SOURCE_MPPT
      [] call.h = "rail" -> FAULT_SOURCE_RAIL
      [] call.h = "uart" -> FAULT_SOURCE_UART

CallCode(call) ==
    IF call.h = "uart" THEN UartFaultCode(call.e)
    ELSE OSUSAT_GET_LOCAL_CODE(call.e.id)

\* the next report of the script
seed_report ==
    /\ clock < seed.n
    /\ LET call == SeedCall(seed.kind, seed.n, clock)
           r == Handle(manager, call, clock)
       IN  /\ manager' = r.m
           /\ out' = r.out
           /\ lastOp' = Report(CallSource(call), CallCode(call))
           /\ published_health' = LastPublished(r.out, published_health)
    /\ clock' = clock + 1
    /\ UNCHANGED <<deadline, seed, rxVars, logVars, svcVars>>

SeedKinds == {"warning", "degraded", "critical", "uart"}

TableInit ==
    /\ SvcIdle
    /\ RxIdle
    /\ LogIdle
    /\ manager = redundancy_manager_init
    /\ out = <<>>
    /\ lastOp = NoOp
    /\ published_health = SYSTEM_HEALTH_OK
    /\ clock = 0
    /\ \E kind \in SeedKinds, n \in 0 .. REDUNDANCY_MANAGER_MAX_FAULTS :
         /\ seed = [kind |-> kind, n |-> n]
         /\ deadline = n + MaxTableSteps

TableNext ==
    \/ seed_report
    \/ battery_fault
    \/ mppt_fault
    \/ rail_fault
    \/ uart_fault
    \/ request

SpecTable == TableInit /\ [][TableNext]_vars

\* the health reduction rule of the design
HealthOf(faults) ==
    IF \E i \in Slots : faults[i].active
                        /\ faults[i].severity = FAULT_SEVERITY_CRITICAL
    THEN SYSTEM_HEALTH_FAULT
    ELSE IF \E i \in Slots : faults[i].active
                             /\ faults[i].severity = FAULT_SEVERITY_DEGRADED
    THEN SYSTEM_HEALTH_DEGRADED
    ELSE SYSTEM_HEALTH_OK

(***************************************************************************)
(* evaluate_health on its own: the table is drawn from the tables that     *)
(* differ from the zeroed table in at most MaxEvalEntries slots.           *)
(***************************************************************************)
EvalSlots == {0, 1, 2, 7, 14, 15}

EvalEntries ==
    {[ZeroFault EXCEPT !.severity = s, !.active = a, !.count = 1] :
        s \in fault_severity_t, a \in BOOLEAN}

EvalTables ==
    {[i \in Slots |->
        IF \E k \in 1 .. MaxEvalEntries : pos[k] = i
        THEN ent[CHOOSE k \in 1 .. MaxEvalEntries :
                    pos[k] = i /\ \A j \in 1 .. MaxEvalEntries :
                                     pos[j] = i => j <= k]
        ELSE ZeroFault] :
        pos \in [1 .. MaxEvalEntries -> EvalSlots],
        ent \in [1 .. MaxEvalEntries -> EvalEntries]}

HealthInit ==
    /\ SvcIdle
    /\ RxIdle
    /\ LogIdle
    /\ \E t \in EvalTables :
         manager = [redundancy_manager_init EXCEPT !.faults = t]
    /\ out = <<>>
    /\ lastOp = NoOp
    /\ published_health = SYSTEM_HEALTH_OK
    /\ clock = 0
    /\ deadline = 1
    /\ seed = NoSeed

\* one call of redundancy_manager_evaluate_health; the result is in out
evaluate_health ==
    /\ clock < deadline
    /\ out' = <<Event("evaluate_health",
                      redundancy_manager_evaluate_health(manager))>>
    /\ lastOp' = [op |-> "evaluate_health"]
    /\ clock' = clock + 1
    /\ UNCHANGED <<manager, published_health, deadline, seed, rxVars, logVars, svcVars>>

HealthNext == evaluate_health

SpecHealth == HealthInit /\ [][HealthNext]_vars

(***************************************************************************)
(* The logging service: entries get logged, ticks and flush requests       *)
(* flush them, redundancy events move the active channel.                  *)
(***************************************************************************)
DegradedEvents ==
    {Event(REDUNDANCY_EVENT_COMPONENT_DEGRADED,
           <<[component |-> c, fallback_available |-> f]>>) :
        c \in {COMPONENT_UART_PRIMARY, COMPONENT_UART_SECONDARY, 2},
        f \in BOOLEAN}

\* a recovery event carries a component id, or a payload too short for one
RecoveredEvents ==
    {Event(REDUNDANCY_EVENT_COMPONENT_RECOVERED, pl) :
        pl \in {<<>>, <<COMPONENT_UART_PRIMARY>>, <<COMPONENT_UART_SECONDARY>>}}

\* the event names the primary UART
NamesPrimary(e) ==
    IF e.id = REDUNDANCY_EVENT_COMPONENT_DEGRADED
    THEN e.payload[1].component = COMPONENT_UART_PRIMARY
    ELSE e.payload # <<>> /\ e.payload[1] = COMPONENT_UART_PRIMARY

RouteOf(e) ==
    IF e.id = REDUNDANCY_EVENT_COMPONENT_RECOVERED THEN "recovered"
    ELSE IF e.payload[1].fallback_available THEN "degraded_fallback"
    ELSE "degraded_no_fallback"

LogInit ==
    /\ SvcIdle
    /\ RxIdle
    /\ manager = redundancy_manager_init
    /\ out = <<>>
    /\ lastOp = NoOp
    /\ published_health = SYSTEM_HEALTH_OK
    /\ clock = 0
    /\ deadline = 0
    /\ seed = NoSeed
    /\ g_active_uart = PRIMARY_UART
    /\ uart_initialized \in [{PRIMARY_UART, AUX_UART} -> BOOLEAN]
    /\ tick_counter = 0
    /\ pending \in {<<>>} \cup {<<s>> : s \in EntrySizes}
    /\ sent = <<>>
    /\ route = "none"
    /\ used_aux = FALSE
    /\ flush_count = -1

\* the flush that ends logging_handle_tick and logging_handle_request
Flush ==
    LET r == logging_flush(pending, g_active_uart, uart_initialized)
    IN  /\ pending' = r.pending
        /\ sent' = [k \in 1 .. Len(r.ports) |->
                       [port |-> r.ports[k], route |-> route]]
        /\ used_aux' = (used_aux \/ \E k \in 1 .. Len(r.ports) :
                                        r.ports[k] = UART_PORT_3)
        /\ flush_count' = r.count

\* a LOG_* call of some service appends an entry to the log ring
log_write ==
    /\ Len(pending) < MaxPending
    /\ \E s \in EntrySizes : pending' = Append(pending, s)
    /\ sent' = <<>>
    /\ flush_count' = -1
    /\ UNCHANGED <<g_active_uart, uart_initialized, tick_counter, route,
                   used_aux, rxVars, fmVars, svcVars>>

logging_handle_tick ==
    /\ IF tick_counter + 1 >= LOG_FLUSH_INTERVAL_CYCLES
       THEN tick_counter' = 0 /\ Flush
       ELSE tick_counter' = tick_counter + 1
            /\ sent' = <<>>
            /\ flush_count' = -1
            /\ UNCHANGED <<pending, used_aux>>
    /\ UNCHANGED <<g_active_uart, uart_initialized, route, rxVars, fmVars, svcVars>>

logging_handle_request ==
    /\ Flush
    /\ UNCHANGED <<g_active_uart, uart_initialized, tick_counter, route,
                   rxVars, fmVars, svcVars>>

\* logging_handle_redundancy run on the event e
RedundancyStep(e) ==
    /\ g_active_uart' =
           logging_handle_redundancy(g_active_uart, e, uart_initialized)
    /\ route' = IF NamesPrimary(e) THEN RouteOf(e) ELSE route
    /\ sent' = <<>>
    /\ flush_count' = -1
    /\ UNCHANGED <<uart_initialized, tick_counter, pending, used_aux,
                   rxVars, fmVars, svcVars>>

redundancy_event ==
    \/ \E e \in DegradedEvents : RedundancyStep(e)
    \/ \E e \in RecoveredEvents : RedundancyStep(e)

LogNext ==
    \/ log_write
    \/ logging_handle_tick
    \/ logging_handle_request
    \/ redundancy_event

SpecLog == LogInit /\ [][LogNext]_vars

(***************************************************************************)
(* Properties of the fault and health engine.                              *)
(***************************************************************************)
ActiveSlots(m) == {i \in Slots : m.faults[i].active}

\* the step is a completed handler that reported (source, code)
ReportStep == clock' = clock + 1 /\ lastOp'.op = "report"

\* C3: fault dedup.  The table never holds two active entries with the same
\* (source, code); a report of a (source, code) that is already active
\* creates no entry and adds exactly one to the count of that entry.
C3_FaultDedup ==
    /\ [](\A i, j \in ActiveSlots(manager) :
            (manager.faults[i].source = manager.faults[j].source
             /\ manager.faults[i].code = manager.faults[j].code) => i = j)
    /\ [][(ReportStep
           /\ MatchingSlots(manager, lastOp'.source, lastOp'.code) # {}) =>
            \E i \in MatchingSlots(manager, lastOp'.source, lastOp'.code) :
                manager'.faults =
                    [manager.faults EXCEPT ![i].count = @ + 1]]_vars

\* a fault was reported twice: one active entry for it, with count 2
C3_Witness ==
    /\ lastOp.op = "report"
    /\ Cardinality(MatchingSlots(manager, lastOp.source, lastOp.code)) = 1
    /\ \E i \in MatchingSlots(manager, lastOp.source, lastOp.code) :
          manager.faults[i].count = 2
    /\ \E i \in Slots : ~manager.faults[i].active /\ manager.faults[i].count > 0

\* C4: health reduction.  evaluate_health returns Fault if an active entry is
\* Critical, else Degraded if an active entry is Degraded, else Ok; inactive
\* entries and active Info or Warning entries do not count.
C4_HealthReduction ==
    lastOp.op = "evaluate_health" =>
        out[1].payload = HealthOf(manager.faults)

\* evaluated on a table with an inactive Critical entry in front of an
\* active Degraded one and nothing else active
C4_Witness ==
    /\ lastOp.op = "evaluate_health"
    /\ out[1].payload = SYSTEM_HEALTH_DEGRADED
    /\ \E i, j \in Slots :
          /\ i < j
          /\ ~manager.faults[i].active
          /\ manager.faults[i].severity = FAULT_SEVERITY_CRITICAL
          /\ manager.faults[j].active
          /\ manager.faults[j].severity = FAULT_SEVERITY_DEGRADED

\* C5: health edge-triggering.  A report or clear publishes a health-change
\* event exactly when the reduction of the table now differs from the health
\* published last; the event carries the new value; a step that leaves the
\* reduction unchanged publishes none.
C5_HealthEdgeTriggered ==
    [][(clock' = clock + 1
        /\ lastOp'.op \in {"report", "clear_fault", "clear_all"}) =>
        /\ (HealthEvents(out') # <<>>)
             <=> (HealthOf(manager'.faults) # published_health)
        /\ Len(HealthEvents(out')) <= 1
        /\ \A k \in 1 .. Len(HealthEvents(out')) :
               HealthEvents(out')[k].payload = HealthOf(manager'.faults)
        /\ (HealthOf(manager'.faults) = HealthOf(manager.faults))
             => HealthEvents(out') = <<>>]_vars

\* C6: the stored health is the reduction of the active entries after every
\* handler of the fault engine.
C6_HealthIsDerived == manager.health = HealthOf(manager.faults)

\* C7: table capacity.  With all slots active, a report of a (source, code)
\* that is not in the table leaves every slot, the stored health and the
\* lifetime fault counter unchanged.
C7_TableCapacity ==
    [][(ReportStep
        /\ ActiveSlots(manager) = Slots
        /\ MatchingSlots(manager, lastOp'.source, lastOp'.code) = {}) =>
        /\ manager'.faults = manager.faults
        /\ manager'.health = manager.health
        /\ manager'.total_fault_count = manager.total_fault_count]_vars

\* the faults carried by the responses evs, in order
RECURSIVE ListedFaults(_)
ListedFaults(evs) ==
    IF evs = <<>> THEN <<>>
    ELSE [j \in 1 .. Head(evs).payload.faults_in_chunk |->
             Head(evs).payload.faults[j - 1]] \o ListedFaults(Tail(evs))

\* C8: fault-list pagination.  With n > 0 active faults a fault-list request
\* publishes ceil(n / 4) responses, chunk_index 0, 1, 2, ..., each with
\* total_faults = n, 4 faults in every chunk but a last partial one of
\* n mod 4, and the chunks hold every active fault exactly once.
C8_FaultListPagination ==
    LET n == ActiveCount(manager)
    IN  (lastOp.op = "fault_list" /\ n > 0) =>
          /\ Len(out) = (n + FAULT_LIST_CHUNK - 1) \div FAULT_LIST_CHUNK
          /\ \A k \in 1 .. Len(out) :
                /\ out[k].id = REDUNDANCY_EVENT_FAULT_LIST_RESPONSE
                /\ out[k].payload.chunk_index = k - 1
                /\ out[k].payload.total_faults = n
                /\ out[k].payload.faults_in_chunk =
                      IF k < Len(out) \/ n % FAULT_LIST_CHUNK = 0
                      THEN FAULT_LIST_CHUNK ELSE n % FAULT_LIST_CHUNK
          /\ Len(ListedFaults(out)) = n
          /\ {ListedFaults(out)[j] : j \in 1 .. Len(ListedFaults(out))}
               = {manager.faults[i] : i \in ActiveSlots(manager)}

\* ten active faults with a free slot among them were listed in three chunks
C8_Witness ==
    /\ lastOp.op = "fault_list"
    /\ ActiveCount(manager) = 10
    /\ Len(out) = 3
    /\ out[3].payload.faults_in_chunk = 2
    /\ \E i, j \in Slots :
          i < j /\ ~manager.faults[i].active /\ manager.faults[j].active

(***************************************************************************)
(* Properties of the reassembly engine.                                    *)
(***************************************************************************)
PacketReceivedEvents(ps) ==
    [i \in 1 .. Len(ps) |-> [id |-> UART_EVENT_PACKET_RECEIVED, payload |-> ps[i]]]

\* C1: chunk-size independence.  Whatever the partition of a stream of valid
\* frames into DMA deliveries and ticks, once every byte is handled the
\* engine has published exactly the packets of the frames, in order, and no
\* error event, and is in WAIT_START_BYTE with cursor 0, the pool index and
\* the counters fixed by the number of frames alone.
C1_ChunkSizeIndependence ==
    (input.kind = "frames" /\ RxDrained) =>
        /\ \A k \in 1 .. Len(rx.bus) : rx.bus[k].id # UART_EVENT_ERROR_DETECTED
        /\ rx.bus = PacketReceivedEvents(input.packets)
        /\ rx.uart.rx_state = RX_STATE_WAIT_START_BYTE
        /\ rx.uart.decode_index = 0
        /\ rx.uart.pool_index = Len(input.packets) % UART_PACKET_POOL_SIZE
        /\ rx.uart.rx_packet_count = Len(input.packets)
        /\ rx.uart.rx_crc_error_count = 0
        /\ rx.uart.rx_byte_count = Len(InputBytes(input))

\* a stream of at least two frames, one of them with a payload, was
\* delivered one byte per DMA delivery and has been handled completely
C1_Witness ==
    /\ input.kind = "frames"
    /\ Len(input.packets) >= 2
    /\ \E i \in 1 .. Len(input.packets) : input.packets[i].payload # <<>>
    /\ deliveries = Len(InputBytes(input))
    /\ RxDrained
    /\ rx.uart.rx_packet_count = Len(input.packets)

\* C2: noise resilience.  Non-start-byte noise followed by one valid frame F:
\* once drained, exactly one packet-received event, for F, has been
\* published, no error event, and the engine is back in WAIT_START_BYTE.
C2_NoiseResilience ==
    (input.kind = "noise" /\ RxDrained) =>
        /\ \A k \in 1 .. Len(rx.bus) : rx.bus[k].id # UART_EVENT_ERROR_DETECTED
        /\ rx.bus = PacketReceivedEvents(input.packets)
        /\ Len(rx.bus) = 1
        /\ rx.uart.rx_state = RX_STATE_WAIT_START_BYTE
        /\ rx.uart.decode_index = 0

C2_Witness ==
    /\ input.kind = "noise"
    /\ Len(input.noise) >= 2
    /\ RxDrained
    /\ rx.uart.rx_packet_count = 1

\* the byte at the head of the chunk completes a frame: after the overflow
\* guard the engine is in READ_PAYLOAD and the cursor reaches expected_len
CursorReachesExpected ==
    /\ draining
    /\ chunk # <<>>
    /\ rx.uart.decode_index < UART_RX_MAX_PACKET_SIZE
    /\ rx.uart.rx_state = RX_STATE_READ_PAYLOAD
    /\ rx.uart.decode_index + 1 >= rx.uart.expected_packet_len

\* the bytes of the frame held by pool buffer k of engine u
FrameIn(u, k, len) == [i \in 1 .. len |-> u.packet_pool[k][i - 1]]

\* C10: decode success.  When the cursor reaches expected_len and the decoder
\* accepts, exactly one packet-received event carrying the decoded packet is
\* published, the packet counter grows by one, the error counter is
\* unchanged, the pool index advances by one modulo the pool size (to a
\* different buffer) and the engine is in WAIT_START_BYTE with cursor 0.
C10_DecodeSuccess ==
    [][(CursorReachesExpected /\ chunk' = Tail(chunk)
          /\ rx'.res = OSUSAT_PACKET_OK) =>
        /\ Len(rx'.bus) = Len(rx.bus) + 1
        /\ SubSeq(rx'.bus, 1, Len(rx.bus)) = rx.bus
        /\ rx'.bus[Len(rx'.bus)].id = UART_EVENT_PACKET_RECEIVED
        /\ osusat_packet_pack(rx'.bus[Len(rx'.bus)].payload)
             = FrameIn(rx'.uart, rx.uart.pool_index, rx.uart.expected_packet_len)
        /\ rx'.uart.rx_packet_count = rx.uart.rx_packet_count + 1
        /\ rx'.uart.rx_crc_error_count = rx.uart.rx_crc_error_count
        /\ rx'.uart.pool_index = (rx.uart.pool_index + 1) % UART_PACKET_POOL_SIZE
        /\ rx'.uart.pool_index # rx.uart.pool_index
        /\ rx'.uart.rx_state = RX_STATE_WAIT_START_BYTE
        /\ rx'.uart.decode_index = 0]_vars

\* a second frame has just been decoded, in the buffer after the first one
C10_Witness ==
    /\ rx.res = OSUSAT_PACKET_OK
    /\ rx.uart.rx_packet_count = 2
    /\ rx.uart.pool_index = 0
    /\ Len(rx.bus) = 2

(***************************************************************************)
(* Properties of the logging service.                                      *)
(***************************************************************************)
\* C9: logging failover.  Logging starts on the primary channel.  After a
\* degradation event that names the primary channel and reports a fallback
\* (secondary channel initialized) the secondary is the active channel and
\* every flushed packet goes out through the secondary port; after a
\* recovery event that names the primary channel, and before any such
\* event, the primary is active and every packet goes out through the
\* primary port.
C9_LoggingFailover ==
    /\ route = "none" => g_active_uart = PRIMARY_UART
    /\ route = "recovered" => g_active_uart = PRIMARY_UART
    /\ (route = "degraded_fallback" /\ uart_initialized[AUX_UART])
           => g_active_uart = AUX_UART
    /\ \A k \in 1 .. Len(sent) :
         /\ sent[k].route \in {"none", "recovered"}
                => sent[k].port = UART_PORT_1
         /\ (sent[k].route = "degraded_fallback" /\ uart_initialized[AUX_UART])
                => sent[k].port = UART_PORT_3

\* packets went out through the secondary port while the primary was
\* degraded, and after the recovery a flush sent through the primary again
C9_Witness ==
    /\ used_aux
    /\ route = "recovered"
    /\ sent # <<>>
    /\ \A k \in 1 .. Len(sent) :
         sent[k].route = "recovered" /\ sent[k].port = UART_PORT_1

(***************************************************************************)
(* Further properties of the reassembly engine.                            *)
(***************************************************************************)
\* the decoder results that reject a frame
DecodeErrors ==
    {OSUSAT_PACKET_ERR_VERSION, OSUSAT_PACKET_ERR_LENGTH,
     OSUSAT_PACKET_ERR_TRAILER}

\* C11: decode failure.  When the cursor reaches expected_len and the decoder
\* rejects the frame, exactly one error-detected event carrying the decoder's
\* reason is published, the error counter grows by one, the packet counter
\* and the pool index are unchanged, the engine is in WAIT_START_BYTE with
\* cursor 0 and the bytes still to come are untouched; a corrupt frame in
\* front of a valid one yields the error event and then the valid packet.
C11_DecodeFailure ==
    /\ []((input.kind = "bad" /\ RxDrained) =>
            /\ Len(rx.bus) = 2
            /\ rx.bus[1].id = UART_EVENT_ERROR_DETECTED
            /\ rx.bus[2] = [id |-> UART_EVENT_PACKET_RECEIVED,
                            payload |-> EmptyPacket]
            /\ rx.uart.rx_crc_error_count = 1
            /\ rx.uart.rx_packet_count = 1)
    /\ [][(CursorReachesExpected /\ deliveries' = deliveries
             /\ rx'.res \in DecodeErrors) =>
           /\ Len(rx'.bus) = Len(rx.bus) + 1
           /\ SubSeq(rx'.bus, 1, Len(rx.bus)) = rx.bus
           /\ rx'.bus[Len(rx'.bus)].id = UART_EVENT_ERROR_DETECTED
           /\ rx'.bus[Len(rx'.bus)].payload =
                 osusat_packet_unpack(
                     rx'.uart.packet_pool[rx.uart.pool_index],
                     rx.uart.expected_packet_len).res
           /\ rx'.bus[Len(rx'.bus)].payload \in DecodeErrors
           /\ rx'.uart.rx_crc_error_count = rx.uart.rx_crc_error_count + 1
           /\ rx'.uart.rx_packet_count = rx.uart.rx_packet_count
           /\ rx'.uart.pool_index = rx.uart.pool_index
           /\ rx'.uart.rx_state = RX_STATE_WAIT_START_BYTE
           /\ rx'.uart.decode_index = 0
           /\ chunk' = Tail(chunk)
           /\ rx_ring' = rx_ring
           /\ stream' = stream]_vars

\* a frame with a bad trailer was rejected and the frame behind it decoded
C11_Witness ==
    /\ input.kind = "bad"
    /\ RxDrained
    /\ Len(rx.bus) = 2
    /\ rx.bus[1] = [id |-> UART_EVENT_ERROR_DETECTED,
                    payload |-> OSUSAT_PACKET_ERR_TRAILER]
    /\ rx.bus[2].id = UART_EVENT_PACKET_RECEIVED
    /\ rx.uart.rx_crc_error_count = 1
    /\ rx.uart.pool_index = 1

\* C12: capacity guard.  The cursor never exceeds the capacity of a pool
\* buffer, whatever the header announced; a byte that is kept is stored at
\* the old cursor, which lies below the capacity; a byte that arrives with
\* the cursor at the capacity is handled from WAIT_START_BYTE with cursor 0.
C12_CapacityGuard ==
    /\ [](rx.uart.decode_index <= UART_RX_MAX_PACKET_SIZE)
    /\ [][(draining /\ chunk # <<>> /\ chunk' = Tail(chunk)
             /\ deliveries' = deliveries) =>
           LET byte == Head(chunk)
               p    == rx.uart.pool_index
               i    == rx.uart.decode_index
           IN  IF i >= UART_RX_MAX_PACKET_SIZE THEN
                   /\ rx'.bus = rx.bus
                   /\ IF byte = OSUSAT_START_BYTE THEN
                          /\ rx'.uart.rx_state = RX_STATE_READ_HEADER
                          /\ rx'.uart.decode_index = 1
                          /\ rx'.uart.packet_pool[p][0] = byte
                      ELSE
                          /\ rx'.uart.rx_state = RX_STATE_WAIT_START_BYTE
                          /\ rx'.uart.decode_index = 0
               ELSE
                   (rx'.uart.packet_pool # rx.uart.packet_pool
                      \/ rx'.uart.decode_index = i + 1) =>
                       /\ i < UART_RX_MAX_PACKET_SIZE
                       /\ i \in DOMAIN rx.uart.packet_pool[p]
                       /\ rx'.uart.packet_pool =
                            [rx.uart.packet_pool EXCEPT ![p][i] = byte]]_vars

\* a header announced more than a pool buffer holds, the cursor ran to the
\* capacity, and the start byte behind it opened a new frame at offset 0
C12_Witness ==
    /\ input.kind = "oversize"
    /\ RxDrained
    /\ rx.uart.expected_packet_len > UART_RX_MAX_PACKET_SIZE
    /\ rx.uart.rx_state = RX_STATE_READ_HEADER
    /\ rx.uart.decode_index = 1
    /\ rx.bus = <<>>

(***************************************************************************)
(* The reassembly engine with line errors reported by the transport.       *)
(***************************************************************************)
\* C13: hardware-error recovery.  After a line error reported while the
\* engine was in READ_HEADER or READ_PAYLOAD with nothing left to drain, the
\* next start byte begins a new frame at offset 0: it is stored at index 0
\* and the engine is in READ_HEADER with cursor 1.
C13_HardwareErrorRecovery ==
    [][(hw_error.midframe /\ draining /\ chunk # <<>>
          /\ chunk' = Tail(chunk) /\ Head(chunk) = OSUSAT_START_BYTE) =>
        /\ rx'.uart.rx_state = RX_STATE_READ_HEADER
        /\ rx'.uart.decode_index = 1
        /\ rx'.uart.packet_pool[rx.uart.pool_index][0] = OSUSAT_START_BYTE]_vars

\* an action of the interrupt context: a DMA delivery or the error callback
IsrStep ==
    \/ deliveries' # deliveries
    \/ hw_error'.count # hw_error.count

\* C14: context isolation.  A step of the interrupt context changes only the
\* RX ring and the DMA position: the reassembly context, the bytes being
\* drained, the fault engine and the event bus are as they were.
C14_ContextIsolation ==
    [][IsrStep =>
        /\ rx'.uart = rx.uart
        /\ chunk' = chunk
        /\ draining' = draining
        /\ manager' = manager
        /\ out' = out
        /\ rx'.bus = rx.bus]_vars

(***************************************************************************)
(* Component flags, invalid requests and clear_all of the fault engine.    *)
(***************************************************************************)
Components == 0 .. (COMPONENT_COUNT - 1)

\* the component redundancy_manager_handle_uart_fault blames for a UART code
ComponentOfUartCode(code) ==
    IF code \div 256 = 1 THEN COMPONENT_UART_PRIMARY
    ELSE COMPONENT_UART_SECONDARY

\* the active entries attributable to component c
AttributableSlots(m, c) ==
    {i \in Slots : /\ m.faults[i].active
                   /\ m.faults[i].source = FAULT_SOURCE_UART
                   /\ ComponentOfUartCode(m.faults[i].code) = c}

\* C15: component invariant.  A component's flag is false only if an active
\* entry of the table is attributable to that component.
C15_ComponentInvariant ==
    \A c \in Components :
        ~manager.component_status[c] => AttributableSlots(manager, c) # {}

\* the handler result r has component c healthy and says so on the bus
RecoversIn(r, c) ==
    /\ r.m.component_status[c]
    /\ \E k \in 1 .. Len(r.out) :
          /\ r.out[k].id = REDUNDANCY_EVENT_COMPONENT_RECOVERED
          /\ r.out[k].payload = c

\* some handler of the engine, on some event, returns component c to healthy
CanRecover(c) ==
    \/ \E e \in BatteryEvents :
          RecoversIn(redundancy_manager_handle_battery_fault(manager, e, clock), c)
    \/ \E e \in MpptEvents :
          RecoversIn(redundancy_manager_handle_mppt_fault(manager, e, clock), c)
    \/ \E e \in RailEvents :
          RecoversIn(redundancy_manager_handle_rail_fault(manager, e, clock), c)
    \/ \E e \in UartEvents :
          RecoversIn(redundancy_manager_handle_uart_fault(manager, e, clock), c)
    \/ \E e \in RequestEvents :
          RecoversIn(redundancy_manager_handle_request(manager, e, clock), c)

\* C16: component recovery.  Whenever a component is marked degraded, some
\* operation of the engine sets its flag back to true and publishes a
\* component-recovered event naming it.
C16_ComponentRecovery ==
    \A c \in Components : ~manager.component_status[c] => CanRecover(c)

\* the handler that ran in this step was given an invalid request
InvalidRequest ==
    /\ clock' = clock + 1
    /\ \/ /\ lastOp'.op = "component_status"
          /\ lastOp'.component >= COMPONENT_COUNT
       \/ /\ lastOp'.op = "clear_fault"
          /\ MatchingSlots(manager, lastOp'.source, lastOp'.code) = {}

\* C17: invalid requests do not mutate state.  A component-status query for
\* an id >= COMPONENT_COUNT and a clear_fault for a pair with no active entry
\* leave the table, the stored health, the component flags and the lifetime
\* counter unchanged and publish no health-change event.
C17_InvalidRequestNoMutation ==
    [][InvalidRequest =>
        /\ manager'.faults = manager.faults
        /\ manager'.health = manager.health
        /\ manager'.component_status = manager.component_status
        /\ manager'.total_fault_count = manager.total_fault_count
        /\ HealthEvents(out') = <<>>]_vars

\* a clear_fault for a pair that was never reported ran on a table with an
\* active entry of the same code from another source
C17_Witness ==
    /\ lastOp.op = "clear_fault"
    /\ \A i \in Slots :
          manager.faults[i].count > 0 =>
              ~(/\ manager.faults[i].source = lastOp.source
                /\ manager.faults[i].code = lastOp.code)
    /\ \E i \in Slots : /\ manager.faults[i].active
                        /\ manager.faults[i].code = lastOp.code
    /\ manager.health # SYSTEM_HEALTH_OK
    /\ out = <<>>

\* C18: invalid requests get an explicit answer.  The handler of an invalid
\* request publishes a response the requester can observe.
C18_InvalidRequestAnswered ==
    [][InvalidRequest => out' # <<>>]_vars

\* C19: clear_all.  After a clear-all request no entry is active and the
\* stored health is OK; HEALTH_RECOVERED is published exactly when the stored
\* health was not OK before, and no other health event is published.
C19_ClearAll ==
    [][(clock' = clock + 1 /\ lastOp'.op = "clear_all") =>
        /\ ActiveSlots(manager') = {}
        /\ manager'.health = SYSTEM_HEALTH_OK
        /\ (HealthEvents(out') # <<>>) <=> (manager.health # SYSTEM_HEALTH_OK)
        /\ Len(HealthEvents(out')) <= 1
        /\ \A k \in 1 .. Len(HealthEvents(out')) :
              /\ HealthEvents(out')[k].id = REDUNDANCY_EVENT_HEALTH_RECOVERED
              /\ HealthEvents(out')[k].payload = SYSTEM_HEALTH_OK
        /\ out' = HealthEvents(out')]_vars

\* clear_all ran on a table with faults and published the recovery
C19_Witness ==
    /\ lastOp.op = "clear_all"
    /\ ActiveSlots(manager) = {}
    /\ \E i \in Slots : manager.faults[i].count > 0
    /\ manager.health = SYSTEM_HEALTH_OK
    /\ out = <<Event(REDUNDANCY_EVENT_HEALTH_RECOVERED, SYSTEM_HEALTH_OK)>>

\* the events an accepted report publishes
AcceptedReportEvents ==
    {REDUNDANCY_EVENT_CRITICAL_HEALTH, REDUNDANCY_EVENT_HEALTH_DEGRADED,
     REDUNDANCY_EVENT_HEALTH_RECOVERED, REDUNDANCY_EVENT_COMPONENT_DEGRADED}

\* C20: table-full is signaled.  A report dropped because every slot is
\* active publishes an event that no accepted report publishes.
C20_TableFullSignaled ==
    [][(ReportStep
        /\ ActiveSlots(manager) = Slots
        /\ MatchingSlots(manager, lastOp'.source, lastOp'.code) = {}) =>
        \E k \in 1 .. Len(out') : out'[k].id \notin AcceptedReportEvents]_vars

(***************************************************************************)
(* Dropped frames of the reassembly engine.                                *)
(***************************************************************************)
\* the step handles a byte that arrives with the cursor at the capacity
GuardTrips ==
    /\ draining
    /\ chunk # <<>>
    /\ chunk' = Tail(chunk)
    /\ deliveries' = deliveries
    /\ rx.uart.rx_state # RX_STATE_WAIT_START_BYTE
    /\ rx.uart.decode_index >= UART_RX_MAX_PACKET_SIZE

\* the step publishes exactly one error-detected event and counts one error
OneErrorSurfaced ==
    /\ Len(rx'.bus) = Len(rx.bus) + 1
    /\ rx'.bus[Len(rx'.bus)].id = UART_EVENT_ERROR_DETECTED
    /\ rx'.uart.rx_crc_error_count = rx.uart.rx_crc_error_count + 1

\* C21: framing errors are always surfaced.  A frame dropped because the
\* decoder rejected it, or because the capacity guard tripped mid-frame, is
\* surfaced as exactly one error-detected event and one increment of the
\* error counter.
C21_FramingErrorsSurfaced ==
    [][((CursorReachesExpected /\ deliveries' = deliveries
           /\ rx'.res \in DecodeErrors)
        \/ GuardTrips) => OneErrorSurfaced]_vars

(***************************************************************************)
(* The receiver with line errors, and the bus dispatching its events.       *)
(***************************************************************************)
\* the event bus hands the oldest undispatched UART event to the manager;
\* it dispatches between handlers, never while the tick handler is draining
dispatch_uart_event ==
    /\ ~draining
    /\ dispatched < Len(rx.bus)
    /\ LET r == osusat_event_bus_dispatch_named(manager, rx.bus[dispatched + 1],
                                                clock)
       IN  /\ manager' = r.m
           /\ out' = r.out
           /\ published_health' = LastPublished(r.out, published_health)
    /\ dispatched' = dispatched + 1
    /\ UNCHANGED <<rc, rc_bus, rail_env, lastOp, clock, deadline, seed, rxVars,
                   logVars, ppVars, batVars>>

RxErrNext ==
    \/ RxNext
    \/ HAL_UART_ErrorCallback
    \/ dispatch_uart_event

SpecRxErr == RxErrInit /\ [][RxErrNext]_vars

(***************************************************************************)
(* The rail controller driven by ticks, with the readings of its sensors   *)
(* as inputs, and the event bus dispatching what it publishes.             *)
(***************************************************************************)
\* readings at and next to each limit of rail r
RailReadings(r) ==
    {[voltage |-> v, current |-> c] :
        v \in {RAIL_CONFIGS[r].voltage_min - 1, RAIL_CONFIGS[r].voltage_min,
               RAIL_CONFIGS[r].voltage_max, RAIL_CONFIGS[r].voltage_max + 1},
        c \in {RAIL_CONFIGS[r].current_limit, RAIL_CONFIGS[r].current_limit + 1}}

\* the readings of one update: any reading on a monitored rail, zero elsewhere
ReadingsFor(live) ==
    {[r \in RailIds |-> IF r \in live THEN f[r] ELSE NoReading[r]] :
        f \in {h \in [live -> UNION {RailReadings(r) : r \in live}] :
                  \A r \in live : h[r] \in RailReadings(r)}}

\* the controller as constructed, with the rails of live switched on
RailInit ==
    /\ \E live \in {l \in SUBSET RailIds : Cardinality(l) <= MaxLiveRails} :
         \E st \in [live -> {RAIL_STATUS_OK, RAIL_STATUS_DISABLED}] :
            /\ rc = [rail_controller_init EXCEPT !.rails =
                        [r \in RailIds |->
                            IF r \in live
                            THEN [rail_controller_init.rails[r] EXCEPT
                                      !.status = st[r], !.enabled = TRUE]
                            ELSE rail_controller_init.rails[r]]]
            /\ rail_env = [NoRailEnv EXCEPT !.live = live]
    /\ rc_bus = <<>>
    /\ dispatched = 0
    /\ PpIdle
    /\ BatIdle
    /\ RxIdle
    /\ FmIdle

\* EVENT_SYSTICK delivered to rail_controller_handle_tick
rail_tick ==
    /\ rail_env.updates < MaxRailUpdates
    /\ LET due == rc.tick_counter + 1 >= RAIL_CONTROLLER_UPDATE_INTERVAL_TICKS
       IN  \E reading \in IF due THEN ReadingsFor(rail_env.live)
                          ELSE {rail_env.reading} :
              LET r == rail_controller_handle_tick(rc, reading)
              IN  /\ rc' = r.c
                  /\ rc_bus' = rc_bus \o r.out
                  /\ rail_env' =
                       [rail_env EXCEPT
                           !.reading = reading,
                           !.updates = IF due THEN @ + 1 ELSE @,
                           !.op = IF due THEN "update" ELSE "tick"]
    /\ UNCHANGED <<dispatched, rxVars, fmVars, logVars, ppVars, batVars>>

\* an enable or disable request delivered to the rail controller
rail_request ==
    /\ \E id \in {APP_EVENT_REQUEST_RAIL_CONTROLLER_ENABLE_RAIL,
                  APP_EVENT_REQUEST_RAIL_CONTROLLER_DISABLE_RAIL},
          pl \in {<<>>} \cup {<<r>> : r \in rail_env.live} :
         /\ rc' = rail_handle_profile_request_event(rc, [id |-> id, payload |-> pl])
         /\ rail_env' = [rail_env EXCEPT !.op = "request"]
    /\ UNCHANGED <<rc_bus, dispatched, rxVars, fmVars, logVars, ppVars, batVars>>

\* the event bus hands the oldest undispatched rail event to the manager
dispatch_rail_event ==
    /\ dispatched < Len(rc_bus)
    /\ LET r == osusat_event_bus_dispatch(manager, rc_bus[dispatched + 1], clock)
       IN  /\ manager' = r.m
           /\ out' = r.out
           /\ published_health' = LastPublished(r.out, published_health)
    /\ dispatched' = dispatched + 1
    /\ UNCHANGED <<rc, rc_bus, rail_env, lastOp, clock, deadline, seed, rxVars,
                   logVars, ppVars, batVars>>

RailNext ==
    \/ rail_tick
    \/ rail_request
    \/ dispatch_rail_event

SpecRail == RailInit /\ [][RailNext]_vars

\* the step is a periodic update of the rail monitor
UpdateStep == rail_env'.updates = rail_env.updates + 1

\* the events published by the step
NewRailEvents == SubSeq(rc_bus', Len(rc_bus) + 1, Len(rc_bus'))

RailFaultEventIds ==
    {RAIL_CONTROLLER_EVENT_OVERCURRENT_DETECTED,
     RAIL_CONTROLLER_EVENT_UNDERVOLTAGE_DETECTED,
     RAIL_CONTROLLER_EVENT_OVERVOLTAGE_DETECTED}

\* the fault events for rail r among evs
FaultEventsFor(evs, r) ==
    {k \in 1 .. Len(evs) : evs[k].id \in RailFaultEventIds /\ evs[k].payload = r}

\* the fault a reading amounts to under the limits of rail r, if any
ViolatedStatus(r, rd) ==
    IF rd.current > RAIL_CONFIGS[r].current_limit THEN RAIL_STATUS_OVERCURRENT
    ELSE IF rd.voltage < RAIL_CONFIGS[r].voltage_min THEN RAIL_STATUS_UNDERVOLTAGE
    ELSE IF rd.voltage > RAIL_CONFIGS[r].voltage_max THEN RAIL_STATUS_OVERVOLTAGE
    ELSE RAIL_STATUS_OK

\* C22: rail fail-safe.  In the update in which the reading of an enabled
\* rail violates its limits, the status becomes the matching fault status,
\* exactly one fault event is published for the rail, with the matching id,
\* and the rail is switched off.
C22_RailFailSafe ==
    [][UpdateStep =>
        \A r \in RailIds :
            (rc.rails[r].enabled
               /\ ViolatedStatus(r, rail_env'.reading[r]) # RAIL_STATUS_OK) =>
                /\ rc'.rails[r].status = ViolatedStatus(r, rail_env'.reading[r])
                /\ ~rc'.rails[r].enabled
                /\ Cardinality(FaultEventsFor(NewRailEvents, r)) = 1
                /\ \A k \in FaultEventsFor(NewRailEvents, r) :
                      NewRailEvents[k].id =
                          rail_event_id(ViolatedStatus(r, rail_env'.reading[r]))]_vars

\* an enabled rail drew more than its current limit and was switched off
C22_Witness ==
    /\ rail_env.op = "update"
    /\ \E r \in rail_env.live :
          /\ rail_env.reading[r].current > RAIL_CONFIGS[r].current_limit
          /\ rc.rails[r].status = RAIL_STATUS_OVERCURRENT
          /\ ~rc.rails[r].enabled
          /\ \E k \in 1 .. Len(rc_bus) :
                rc_bus[k] = [id |-> RAIL_CONTROLLER_EVENT_OVERCURRENT_DETECTED,
                             payload |-> r]

RailFaultStatuses ==
    {RAIL_STATUS_OVERCURRENT, RAIL_STATUS_UNDERVOLTAGE, RAIL_STATUS_OVERVOLTAGE}

\* C23: rail status recovery.  At an update whose reading is within the
\* limits, a rail whose status had left OK for a fault status is OK again.
C23_RailStatusRecovery ==
    [][UpdateStep =>
        \A r \in RailIds :
            (rc.rails[r].status \in RailFaultStatuses
               /\ ViolatedStatus(r, rail_env'.reading[r]) = RAIL_STATUS_OK) =>
                rc'.rails[r].status = RAIL_STATUS_OK]_vars

\* C24: rail faults reach the fault engine.  Once the bus has dispatched a
\* fault event of the rail monitor, the table holds an active entry with
\* source Rail and the event's code, and the stored health is the reduction
\* of the table.
C24_RailFaultsReachEngine ==
    [][(dispatched' = dispatched + 1
          /\ rc_bus[dispatched'].id \in RailFaultEventIds) =>
        /\ \E i \in Slots :
              /\ manager'.faults[i].active
              /\ manager'.faults[i].source = FAULT_SOURCE_RAIL
              /\ manager'.faults[i].code =
                    OSUSAT_GET_LOCAL_CODE(rc_bus[dispatched'].id)
        /\ manager'.health = HealthOf(manager'.faults)]_vars

\* C25: transport errors reach the fault engine.  Once the bus has
\* dispatched a line error reported by the UART driver, the table holds an
\* active entry with source UART.
C25_TransportErrorsReachEngine ==
    [][(dispatched' = dispatched + 1
          /\ rx.bus[dispatched'].id = UART_EVENT_ERROR_DETECTED
          /\ rx.bus[dispatched'].payload \in uart_error_t) =>
        \E i \in Slots :
            /\ manager'.faults[i].active
            /\ manager'.faults[i].source = FAULT_SOURCE_UART]_vars

\* C26: send through a channel that is not ready.  While the active channel
\* is not initialized, a flush returns 0 and sends nothing, and no step sends
\* a packet or takes an entry out of the pending log entries.
C26_FlushChannelNotReady ==
    /\ []((flush_count # -1 /\ ~uart_initialized[g_active_uart]) =>
            flush_count = 0 /\ sent = <<>>)
    /\ [][~uart_initialized[g_active_uart] =>
            /\ sent' = <<>>
            /\ (flush_count' # -1 => pending' = pending)
            /\ Len(pending') >= Len(pending)]_vars

\* a flush ran with entries pending and the active channel not initialized
C26_Witness ==
    /\ flush_count = 0
    /\ ~uart_initialized[g_active_uart]
    /\ pending # <<>>

\* C27: component-status response.  The response to a query for a degraded
\* component names the source of an active fault attributable to that
\* component; for a healthy component it carries FAULT_SOURCE_COUNT.
C27_ComponentStatusSource ==
    [][(clock' = clock + 1 /\ lastOp'.op = "component_status"
          /\ lastOp'.component \in Components) =>
        /\ Len(out') = 1
        /\ out'[1].id = REDUNDANCY_EVENT_COMPONENT_STATUS_RESPONSE
        /\ out'[1].payload.component = lastOp'.component
        /\ manager.component_status[lastOp'.component] =>
              out'[1].payload.fault_source = FAULT_SOURCE_COUNT
        /\ (~manager.component_status[lastOp'.component]
              /\ AttributableSlots(manager, lastOp'.component) # {}) =>
              \E i \in AttributableSlots(manager, lastOp'.component) :
                  out'[1].payload.fault_source = manager.faults[i].source]_vars

(***************************************************************************)
(* The power profiles driven by requests and by calls of their interface.  *)
(***************************************************************************)
\* profile arguments: the two profiles and two values outside the enum
ProfileArgs == 0 .. 3

ProfilesInit ==
    /\ SvcIdle
    /\ RxIdle
    /\ FmIdle

\* what an operation leaves behind: state of the rail controller and history
PpStep(r, p, last) ==
    /\ profiles' = p
    /\ rc' = r.c
    /\ rail_cmds' = rail_cmds \o r.cmds
    /\ pp_last' = [last EXCEPT !.from = Len(rail_cmds),
                               !.steps = pp_last.steps + 1]
    /\ UNCHANGED <<rc_bus, rail_env, dispatched, rxVars, fmVars, logVars,
                   batVars>>

\* a request event delivered to handle_profile_request_event
profile_request ==
    /\ pp_last.steps < MaxProfileSteps
    /\ \E id \in {APP_EVENT_REQUEST_POWER_PROFILE_NOMINAL,
                  APP_EVENT_REQUEST_POWER_PROFILE_SAFE,
                  APP_EVENT_REQUEST_RAIL_CONTROLLER_ENABLE_RAIL} :
         LET r == handle_profile_request_event(profiles, rc,
                                               [id |-> id, payload |-> <<>>])
         IN  PpStep(r, r.p, [PpInitOp EXCEPT !.op = "request", !.event = id])

\* a call of power_profiles_enable
power_profiles_enable_call ==
    /\ pp_last.steps < MaxProfileSteps
    /\ \E profile \in ProfileArgs :
         LET r == power_profiles_enable(rc, profile)
         IN  PpStep(r, profiles,
                    [PpInitOp EXCEPT !.op = "enable", !.profile = profile,
                                     !.ret = r.status])

\* a call of power_profiles_disable
power_profiles_disable_call ==
    /\ pp_last.steps < MaxProfileSteps
    /\ \E profile \in ProfileArgs :
         LET r == power_profiles_disable(rc, profile)
         IN  PpStep(r, profiles,
                    [PpInitOp EXCEPT !.op = "disable", !.profile = profile,
                                     !.ret = r.status])

ProfilesNext ==
    \/ profile_request
    \/ power_profiles_enable_call
    \/ power_profiles_disable_call

SpecProfiles == ProfilesInit /\ [][ProfilesNext]_vars

\* the rail calls made by the last operation
LastRailCmds == SubSeq(rail_cmds, pp_last.from + 1, Len(rail_cmds))

\* the configured rails of a profile, in order
ConfiguredRails(profile) ==
    IF profile = POWER_PROFILE_NOMINAL
    THEN <<RAIL_OBC, RAIL_RADIO, RAIL_GPS, RAIL_PAYLOAD_1>>
    ELSE <<RAIL_OBC>>

\* the profile a request event asks for
RequestedProfile(id) ==
    IF id = APP_EVENT_REQUEST_POWER_PROFILE_NOMINAL
    THEN POWER_PROFILE_NOMINAL ELSE POWER_PROFILE_SAFE

\* the calls that switch from profile a to profile b
SwitchCmds(a, b) ==
    [i \in 1 .. Len(ConfiguredRails(a)) |->
        [op |-> "disable", rail |-> ConfiguredRails(a)[i]]]
    \o [i \in 1 .. Len(ConfiguredRails(b)) |->
        [op |-> "enable", rail |-> ConfiguredRails(b)[i]]]

\* C28: profile switch.  The service starts in SAFE; a request for another
\* profile commands off every rail of the current profile in configured
\* order, then on every rail of the requested one, and makes it current; a
\* request for the current profile issues no rail command.
C28_ProfileSwitch ==
    /\ [](pp_last.op = "init" => profiles.current_profile = POWER_PROFILE_SAFE)
    /\ [][(pp_last'.steps = pp_last.steps + 1 /\ pp_last'.op = "request"
             /\ pp_last'.event \in {APP_EVENT_REQUEST_POWER_PROFILE_NOMINAL,
                                    APP_EVENT_REQUEST_POWER_PROFILE_SAFE}) =>
            IF RequestedProfile(pp_last'.event) # profiles.current_profile THEN
                /\ rail_cmds' = rail_cmds \o
                       SwitchCmds(profiles.current_profile,
                                  RequestedProfile(pp_last'.event))
                /\ profiles'.current_profile = RequestedProfile(pp_last'.event)
            ELSE rail_cmds' = rail_cmds /\ profiles' = profiles]_vars

\* a request switched from SAFE to NOMINAL: one rail off, then four rails on
C28_Witness ==
    /\ pp_last.op = "request"
    /\ pp_last.event = APP_EVENT_REQUEST_POWER_PROFILE_NOMINAL
    /\ profiles.current_profile = POWER_PROFILE_NOMINAL
    /\ LastRailCmds = SwitchCmds(POWER_PROFILE_SAFE, POWER_PROFILE_NOMINAL)

\* C29: invalid profile.  power_profiles_enable and power_profiles_disable
\* called with a profile outside {NOMINAL, SAFE} return
\* POWER_PROFILE_ERROR_INVALID_PROFILE, issue no rail command and leave the
\* current profile unchanged.
C29_InvalidProfile ==
    [][(pp_last'.steps = pp_last.steps + 1
          /\ pp_last'.op \in {"enable", "disable"}
          /\ pp_last'.profile \notin {POWER_PROFILE_NOMINAL, POWER_PROFILE_SAFE}) =>
        /\ pp_last'.ret = POWER_PROFILE_ERROR_INVALID_PROFILE
        /\ rail_cmds' = rail_cmds
        /\ rc' = rc
        /\ profiles' = profiles]_vars

\* both calls were made with an invalid profile after a switch to NOMINAL
C29_Witness ==
    /\ pp_last.op = "disable"
    /\ pp_last.profile \notin {POWER_PROFILE_NOMINAL, POWER_PROFILE_SAFE}
    /\ pp_last.ret = POWER_PROFILE_ERROR_INVALID_PROFILE
    /\ LastRailCmds = <<>>
    /\ profiles.current_profile = POWER_PROFILE_NOMINAL

(***************************************************************************)
(* The battery service driven by ticks, with the voltage its sensor reads  *)
(* as input, and by calls of battery_charge_control.                       *)
(***************************************************************************)
\* readings: what the source reads today (0), and next to the threshold
BatteryReadings == {0, CRITICAL_THRESHOLD - 1, CRITICAL_THRESHOLD}

BatteryInit ==
    /\ SvcIdle
    /\ RxIdle
    /\ FmIdle

\* EVENT_SYSTICK delivered to battery_handle_tick
battery_tick ==
    /\ bat_env.updates < MaxBatteryUpdates
    /\ LET due == battery.tick_counter + 1 >= BATTERY_UPDATE_INTERVAL_TICKS
       IN  \E voltage \in IF due THEN BatteryReadings ELSE {bat_env.reading} :
              LET r == battery_handle_tick(battery, voltage)
              IN  /\ battery' = r.b
                  /\ bat_bus' = r.out
                  /\ bat_env' = [ticks |-> bat_env.ticks + 1,
                                 updates |-> IF due THEN bat_env.updates + 1
                                             ELSE bat_env.updates,
                                 reading |-> voltage,
                                 op |-> IF due THEN "update" ELSE "tick",
                                 before |-> battery.battery_status]
    /\ UNCHANGED <<rxVars, fmVars, logVars, railVars, ppVars>>

\* a call of battery_charge_control
battery_charge_control_call ==
    /\ bat_env.updates < MaxBatteryUpdates
    /\ \E enable \in BOOLEAN :
         LET r == battery_charge_control(battery, enable)
         IN  /\ battery' = r.b
             /\ bat_bus' = r.out
             /\ bat_env' = [bat_env EXCEPT !.op = "charge_control",
                                           !.before = battery.battery_status]
    /\ UNCHANGED <<rxVars, fmVars, logVars, railVars, ppVars>>

BatteryNext ==
    \/ battery_tick
    \/ battery_charge_control_call

SpecBattery == BatteryInit /\ [][BatteryNext]_vars

\* the positions of the events with the given id in evs
EventsWithId(evs, id) == {k \in 1 .. Len(evs) : evs[k].id = id}

\* C30: battery critical-low.  The update runs on every 10th tick after
\* battery_init; an update that reads a voltage below the critical threshold
\* while protection is not set sets protection, turns charging off and
\* publishes BATTERY_EVENT_CRITICAL_LOW once, with the voltage read.
C30_BatteryCriticalLow ==
    /\ [](bat_env.updates = bat_env.ticks \div 10)
    /\ [][(bat_env'.updates = bat_env.updates + 1
             /\ bat_env'.reading < 3300
             /\ ~battery.battery_status.protection) =>
            /\ battery'.battery_status.protection
            /\ ~battery'.battery_status.charging
            /\ Cardinality(EventsWithId(bat_bus', BATTERY_EVENT_CRITICAL_LOW)) = 1
            /\ \A k \in EventsWithId(bat_bus', BATTERY_EVENT_CRITICAL_LOW) :
                  bat_bus'[k].payload = bat_env'.reading]_vars

\* the 20th tick read a voltage just below the threshold while the battery
\* was charging and unprotected
C30_Witness ==
    /\ bat_env.op = "update"
    /\ bat_env.ticks = 20
    /\ bat_env.reading = 3299
    /\ bat_env.before.charging
    /\ ~bat_env.before.protection
    /\ battery.battery_status.protection
    /\ ~battery.battery_status.charging
    /\ EventsWithId(bat_bus, BATTERY_EVENT_CRITICAL_LOW) # {}

(***************************************************************************)
(* The receiver fed more frames than it has pool buffers, and the bus      *)
(* dispatching the packet events between ticks.                            *)
(***************************************************************************)
\* one valid frame for every pool buffer and one more
PoolInit ==
    /\ SvcIdle
    /\ input = [kind |-> "pool", noise |-> <<>>,
                packets |-> [k \in 1 .. (UART_PACKET_POOL_SIZE + 1) |-> EmptyPacket]]
    /\ stream = InputBytes(input)
    /\ rx_ring = <<>>
    /\ chunk = <<>>
    /\ draining = FALSE
    /\ deliveries = 0
    /\ rx = RxCtx(uart_events_init, <<>>, "none")
    /\ last_dma_pos = 0
    /\ hw_error = NoHwError
    /\ FmIdle

PoolNext ==
    \/ RxNext
    \/ dispatch_uart_event

SpecPool == PoolInit /\ [][PoolNext]_vars

\* positions on the bus of the packet-received events
PacketPositions == {k \in 1 .. Len(rx.bus) : rx.bus[k].id = UART_EVENT_PACKET_RECEIVED}

\* the pool buffer that holds the frame of the packet event at position k:
\* the pool index starts at 0 and advances once per decoded frame
BufferOf(k) ==
    (Cardinality({j \in PacketPositions : j < k})) % UART_PACKET_POOL_SIZE

\* the pool buffers whose packet event has not been dispatched yet
UnreadBuffers == {BufferOf(k) : k \in {j \in PacketPositions : j > dispatched}}

\* uart_process_byte stores the byte in the active pool buffer
StoresByte(u, byte) ==
    \/ uart_overflow_guard(u).rx_state # RX_STATE_WAIT_START_BYTE
    \/ byte = OSUSAT_START_BYTE

\* C31: pool buffers are not overwritten while unread.  A byte is stored
\* only in a pool buffer whose packet-received event, if it holds a decoded
\* frame, has been dispatched.
C31_PoolBufferNotOverwritten ==
    [][(draining /\ chunk # <<>> /\ chunk' = Tail(chunk)
          /\ StoresByte(rx.uart, Head(chunk))) =>
        rx.uart.pool_index \notin UnreadBuffers]_vars

(***************************************************************************)
(* The reassembly engine between bytes.                                    *)
(***************************************************************************)
\* the engine waits for the rest of a payload
MidPayload ==
    /\ rx.uart.rx_state = RX_STATE_READ_PAYLOAD
    /\ rx.uart.decode_index < rx.uart.expected_packet_len

\* one uart_process_byte of the for loop
ByteStep == chunk # <<>> /\ chunk' = Tail(chunk) /\ deliveries' = deliveries

\* one hal_uart_read that returned bytes
ReadStep == chunk = <<>> /\ chunk' # <<>>

\* C32: no idle timeout.  While the engine is in READ_PAYLOAD with the
\* cursor below the expected length, a step that hands it no byte (a tick,
\* a read of the empty ring buffer, an arrival in the ring buffer) leaves
\* state, cursor, expected length, pool index and counters as they were; a
\* read only adds to the byte counter; the engine leaves READ_PAYLOAD only
\* on a byte, by running the decoder or by the capacity guard.
C32_NoIdleTimeout ==
    [][MidPayload =>
         /\ (~ByteStep /\ ~ReadStep) => rx' = rx
         /\ ReadStep =>
              rx'.uart = [rx.uart EXCEPT !.rx_byte_count = @ + Len(chunk')]
         /\ rx'.uart.rx_state # RX_STATE_READ_PAYLOAD =>
              /\ ByteStep
              /\ \/ rx'.res # "none"
                 \/ rx.uart.decode_index >= UART_RX_MAX_PACKET_SIZE]_vars

\* a tick found the ring buffer empty while a payload is incomplete and more
\* of the frame is still on the wire
C32_Witness ==
    /\ MidPayload
    /\ draining
    /\ rx_ring = <<>>
    /\ chunk = <<>>
    /\ stream # <<>>
    /\ rx.uart.decode_index > MIN_HEADER_BYTES

\* logging_handle_redundancy has just run on a degradation event that names
\* the primary channel and reports no fallback
NoFallbackStep ==
    /\ route' = "degraded_no_fallback"
    /\ sent' = <<>>
    /\ flush_count' = -1
    /\ tick_counter' = tick_counter
    /\ pending' = pending

\* C33: no failover without a fallback.  A component-degradation event that
\* names the primary channel with fallback_available = FALSE leaves the
\* active channel as it was.
C33_NoFailoverWithoutFallback ==
    [][NoFallbackStep => g_active_uart' = g_active_uart]_vars

(***************************************************************************)
(* Further properties of the fault and health engine.                      *)
(***************************************************************************)
\* the other UART of the pair
OtherUart(component) ==
    IF component = COMPONENT_UART_PRIMARY THEN COMPONENT_UART_SECONDARY
    ELSE COMPONENT_UART_PRIMARY

\* C34: fallback availability is truthful.  The fallback_available flag of
\* a degradation event published for a UART is TRUE exactly when the other
\* UART is marked healthy in component_status; a UART reported faulty while
\* the other one is already degraded gets fallback_available = FALSE.
C34_FallbackTruthful ==
    \A k \in 1 .. Len(out) :
        out[k].id = REDUNDANCY_EVENT_COMPONENT_DEGRADED =>
            out[k].payload.fallback_available =
                manager.component_status[OtherUart(out[k].payload.component)]

C36_BoundedFrameAttempt ==
    /\ [](rx.uart.rx_state # RX_STATE_WAIT_START_BYTE =>
            /\ rx.uart.decode_index >= 1
            /\ rx.uart.decode_index <= UART_RX_MAX_PACKET_SIZE)
    /\ [][(ByteStep /\ rx.uart.rx_state # RX_STATE_WAIT_START_BYTE) =>
            \/ /\ rx.uart.decode_index < UART_RX_MAX_PACKET_SIZE
               /\ rx'.res # "none"
               /\ rx'.uart.rx_state = RX_STATE_WAIT_START_BYTE
               /\ rx'.uart.decode_index = 0
            \/ /\ rx.uart.decode_index >= UART_RX_MAX_PACKET_SIZE
               /\ rx'.res = "none"
               /\ rx'.uart =
                    uart_wait_start(
                        [rx.uart EXCEPT !.rx_state = RX_STATE_WAIT_START_BYTE,
                                        !.decode_index = 0],
                        rx.uart.pool_index, Head(chunk))
            \/ /\ rx.uart.decode_index < UART_RX_MAX_PACKET_SIZE
               /\ rx'.res = "none"
               /\ rx'.uart.rx_state # RX_STATE_WAIT_START_BYTE
               /\ rx'.uart.decode_index = rx.uart.decode_index + 1]_vars

\* a header announced more than a pool buffer holds; the byte after the
\* last one that fitted was no start byte and left the engine reset
C36_Witness ==
    /\ input.kind = "oversize"
    /\ rx.uart.expected_packet_len > UART_RX_MAX_PACKET_SIZE
    /\ rx.uart.rx_byte_count > UART_RX_MAX_PACKET_SIZE
    /\ rx.uart.rx_state = RX_STATE_WAIT_START_BYTE
    /\ rx.uart.decode_index = 0
    /\ rx.bus = <<>>

\* C37: empty fault list.  A fault-list request handled while no fault is
\* active publishes no event at all and leaves the engine as it was.
C37_EmptyFaultList ==
    [][(clock' = clock + 1 /\ lastOp'.op = "fault_list"
          /\ ActiveCount(manager) = 0) =>
        /\ out' = <<>>
        /\ manager' = manager]_vars

\* a fault was reported and cleared, and the fault-list request that
\* followed was answered by nothing
C37_Witness ==
    /\ lastOp.op = "fault_list"
    /\ ActiveCount(manager) = 0
    /\ manager.total_fault_count > 0
    /\ out = <<>>

(***************************************************************************)
(* The battery service and the fault engine on one event bus: the events   *)
(* a tick publishes are dispatched in order before the next event is       *)
(* handled; clear-all requests arrive between them.                        *)
(***************************************************************************)
\* EVENT_SYSTICK dispatched to battery_handle_tick, nothing queued before it
battery_systick ==
    /\ bat_bus = <<>>
    /\ battery_tick

\* the event bus hands the oldest queued battery event to the manager
dispatch_battery_event ==
    /\ bat_bus # <<>>
    /\ LET r == osusat_event_bus_dispatch(manager, Head(bat_bus), clock)
       IN  /\ manager' = r.m
           /\ out' = r.out
           /\ published_health' = LastPublished(r.out, published_health)
    /\ bat_bus' = Tail(bat_bus)
    /\ lastOp' = [op |-> "dispatch", code |-> OSUSAT_GET_LOCAL_CODE(Head(bat_bus).id)]
    /\ UNCHANGED <<battery, bat_env, clock, deadline, seed, rxVars, logVars,
                   railVars, ppVars>>

\* APP_EVENT_REQUEST_REDUNDANCY_CLEAR_ALL dispatched to the manager
clear_all_request ==
    /\ bat_bus = <<>>
    /\ lastOp.op # "clear_all"
    /\ LET r == osusat_event_bus_dispatch_named(
                    manager,
                    Event(APP_EVENT_REQUEST_REDUNDANCY_CLEAR_ALL, <<>>), clock)
       IN  /\ manager' = r.m
           /\ out' = r.out
           /\ published_health' = LastPublished(r.out, published_health)
    /\ lastOp' = [op |-> "clear_all"]
    /\ UNCHANGED <<clock, deadline, seed, rxVars, logVars, svcVars>>

BatteryFaultNext ==
    \/ battery_systick
    \/ dispatch_battery_event
    \/ clear_all_request

SpecBatteryFault == BatteryInit /\ [][BatteryFaultNext]_vars

\* the step dispatches a queued battery event with the given id
DispatchOf(id) ==
    /\ bat_bus # <<>>
    /\ bat_bus' = Tail(bat_bus)
    /\ Head(bat_bus).id = id

\* the active entries of the battery with the given code and severity
BatteryEntries(m, code, severity) ==
    {i \in Slots : /\ m.faults[i].active
                   /\ m.faults[i].source = FAULT_SOURCE_BATTERY
                   /\ m.faults[i].code = code
                   /\ m.faults[i].severity = severity}

\* C38: battery critical-low drives health to FAULT in two steps.  The
\* battery service publishes BATTERY_EVENT_FAULT_DETECTED before
\* BATTERY_EVENT_CRITICAL_LOW.  Dispatched with health OK, the first adds an
\* active Degraded battery entry, makes the stored health DEGRADED and
\* publishes the health-degraded event; the second, dispatched after it,
\* adds an active Critical battery entry under another code, makes the
\* stored health FAULT and publishes the critical-health event.
C38_BatteryTwoSteps ==
    /\ [](\A i \in EventsWithId(bat_bus, BATTERY_EVENT_CRITICAL_LOW) :
            \A j \in EventsWithId(bat_bus, BATTERY_EVENT_FAULT_DETECTED) : j < i)
    /\ [][(bat_env'.updates = bat_env.updates + 1
             /\ EventsWithId(bat_bus', BATTERY_EVENT_CRITICAL_LOW) # {}) =>
            EventsWithId(bat_bus', BATTERY_EVENT_FAULT_DETECTED) # {}]_vars
    /\ [][(DispatchOf(BATTERY_EVENT_FAULT_DETECTED)
             /\ manager.health = SYSTEM_HEALTH_OK) =>
            /\ BatteryEntries(manager', BATTERY_FAULT_DETECTED,
                              FAULT_SEVERITY_DEGRADED) # {}
            /\ manager'.health = SYSTEM_HEALTH_DEGRADED
            /\ out' = <<Event(REDUNDANCY_EVENT_HEALTH_DEGRADED,
                              SYSTEM_HEALTH_DEGRADED)>>]_vars
    /\ [][(DispatchOf(BATTERY_EVENT_CRITICAL_LOW)
             /\ manager.health = SYSTEM_HEALTH_DEGRADED) =>
            /\ BatteryEntries(manager', BATTERY_FAULT_DETECTED,
                              FAULT_SEVERITY_DEGRADED) # {}
            /\ BatteryEntries(manager', BATTERY_CRITICAL_LOW,
                              FAULT_SEVERITY_CRITICAL) # {}
            /\ BATTERY_FAULT_DETECTED # BATTERY_CRITICAL_LOW
            /\ manager'.health = SYSTEM_HEALTH_FAULT
            /\ out' = <<Event(REDUNDANCY_EVENT_CRITICAL_HEALTH,
                              SYSTEM_HEALTH_FAULT)>>]_vars

\* both events of one update have been dispatched: two battery entries and
\* health FAULT, the critical-health event published last
C38_Witness ==
    /\ bat_bus = <<>>
    /\ lastOp = [op |-> "dispatch", code |-> BATTERY_CRITICAL_LOW]
    /\ BatteryEntries(manager, BATTERY_FAULT_DETECTED, FAULT_SEVERITY_DEGRADED) # {}
    /\ BatteryEntries(manager, BATTERY_CRITICAL_LOW, FAULT_SEVERITY_CRITICAL) # {}
    /\ manager.health = SYSTEM_HEALTH_FAULT
    /\ published_health = SYSTEM_HEALTH_FAULT
    /\ out = <<Event(REDUNDANCY_EVENT_CRITICAL_HEALTH, SYSTEM_HEALTH_FAULT)>>

\* C39: battery protection is a latch.  Protection, once set, stays set;
\* no tick handled with protection set publishes BATTERY_EVENT_CRITICAL_LOW
\* or BATTERY_EVENT_FAULT_DETECTED, whatever the voltage read; so once the
\* table has been cleared with protection set and nothing queued, no fault
\* enters it again.
C39_ProtectionLatch ==
    /\ [][battery.battery_status.protection =>
            battery'.battery_status.protection]_vars
    /\ [][(battery.battery_status.protection
             /\ bat_env'.ticks = bat_env.ticks + 1) =>
            /\ EventsWithId(bat_bus', BATTERY_EVENT_CRITICAL_LOW) = {}
            /\ EventsWithId(bat_bus', BATTERY_EVENT_FAULT_DETECTED) = {}]_vars
    /\ [][(battery.battery_status.protection /\ bat_bus = <<>>
             /\ ActiveCount(manager) = 0) =>
            ActiveCount(manager') = 0]_vars

\* both battery faults were stored and cleared by a clear-all request, and a
\* later update read a low voltage with protection set: nothing is queued
\* and the table is still empty
C39_Witness ==
    /\ lastOp.op = "clear_all"
    /\ manager.total_fault_count = 2
    /\ ActiveCount(manager) = 0
    /\ bat_env.op = "update"
    /\ bat_env.reading < CRITICAL_THRESHOLD
    /\ bat_env.before.protection
    /\ battery.battery_status.protection
    /\ bat_bus = <<>>

\* the elements of a sequence
Range(s) == {s[i] : i \in DOMAIN s}

\* the rails configured in both profiles
SharedRails == Range(nominal_mode_rails) \cap Range(safe_mode_rails)

=============================================================================
